---- MODULE Spec2Model ----
(***************************************************************************)
(* Verification model of the form builder repository.                      *)
(*                                                                         *)
(*  - the response submission handler (POST of the responses route) with   *)
(*    its answer-validation passes, and                                    *)
(*  - the builder reducer (builderReducer) of the form builder component.  *)
(*                                                                         *)
(* JavaScript strings are modelled as sequences of one-character strings,  *)
(* so that trim, the regular expressions and Number() are computed and not *)
(* assumed.                                                                *)
(***************************************************************************)
EXTENDS Integers, Sequences, FiniteSets, TLC

VARIABLES
    \* ---- responses route (POST) ----
    form,               \* the form row the data store holds: [id, ownerId, fields]
    request,            \* the request being handled (NoRequest before it arrives)
    issues,             \* the handler's issue accumulator
    answersToPersist,   \* the handler's normalized answer accumulator
    httpStatus,         \* status of the response sent (0 before)
    responseIssues,     \* body.issues of a 422 response
    dbResponses,        \* response rows created, each with its answer rows
    \* ---- builder reducer ----
    fields,             \* BuilderState.fields
    selectedFieldId,    \* BuilderState.selectedFieldId
    formMeta,           \* BuilderState.formMeta
    mode,               \* BuilderState.mode
    theme,              \* BuilderState.theme
    lastAction,         \* the action dispatched last (history)
    steps,              \* the number of actions dispatched so far (history)
    \* ---- builder component: publishForm ----
    publishing,         \* the publishing flag of the component (useState(false))
    alerts,             \* the messages shown with alert(), in order
    fetchCalls,         \* the bodies of the POST /api/forms requests sent, in order
    routerPushes,       \* the routes handed to router.push, in order
    \* ---- share route (POST) ----
    shareTokens,        \* the formShareToken rows, in the order they were created
    shareCalls          \* the share creation requests in progress, by request

postVars == <<form, request, issues, answersToPersist, httpStatus, responseIssues, dbResponses>>
builderVars == <<fields, selectedFieldId, formMeta, mode, theme, lastAction, steps>>
publishVars == <<publishing, alerts, fetchCalls, routerPushes>>
shareVars == <<shareTokens, shareCalls>>
vars == <<form, request, issues, answersToPersist, httpStatus, responseIssues, dbResponses,
          fields, selectedFieldId, formMeta, mode, theme, lastAction, steps,
          publishing, alerts, fetchCalls, routerPushes,
          shareTokens, shareCalls>>

(***************************************************************************)
(* Bounds of the model.                                                    *)
(***************************************************************************)
MaxSchemaFields == 1
MaxAnswers == 2

(***************************************************************************)
(* JavaScript strings and values.                                          *)
(***************************************************************************)

\* A value that may be null or undefined: None, or Some(x).
None == <<>>

Some(x) == <<x>>

Get(m) == m[1]

Whitespace == {" ", "\t", "\n"}

Digits == <<"0", "1", "2", "3", "4", "5", "6", "7", "8", "9">>


\* String.prototype.trim
RECURSIVE TrimStart(_)
TrimStart(s) ==
    IF s # <<>> /\ Head(s) \in Whitespace THEN TrimStart(Tail(s)) ELSE s

RECURSIVE TrimEnd(_)
TrimEnd(s) ==
    IF s # <<>> /\ s[Len(s)] \in Whitespace THEN TrimEnd(SubSeq(s, 1, Len(s) - 1)) ELSE s

Trim(s) == TrimEnd(TrimStart(s))

IsDigit(c) == \E i \in 1..10 : Digits[i] = c

DigitValue(c) == (CHOOSE i \in 1..10 : Digits[i] = c) - 1

RECURSIVE DecimalValue(_)
DecimalValue(s) ==
    IF s = <<>> THEN 0
    ELSE 10 * DecimalValue(SubSeq(s, 1, Len(s) - 1)) + DigitValue(s[Len(s)])

\* Number(trimmed) and Number.isFinite on the strings of the model: a run of
\* decimal digits is finite and has its decimal value, any other non-empty
\* string of the model is NaN.
IsNumeric(s) == s # <<>> /\ \A i \in 1..Len(s) : IsDigit(s[i])

NumberOf(s) == DecimalValue(s)

\* JSON values of an answer (answerSchema.value).
StringValue(s) == [t |-> "string", v |-> s]
ArrayValue(a) == [t |-> "array", v |-> a]
NumberValue(n) == [t |-> "number", v |-> n]
BooleanValue(b) == [t |-> "boolean", v |-> b]
NullValue == [t |-> "null", v |-> 0]


(***************************************************************************)
(* Responses route: POST /api/forms/[formId]/responses                     *)
(***************************************************************************)
NoRequest == [session |-> "none", formId |-> "", honey |-> None, answers |-> <<>>]

Issue(fieldId, message) == [fieldId |-> fieldId, message |-> message]

PersistedAnswer(fieldId, value) == [fieldId |-> fieldId, value |-> value]

\* createResponseSchema.safeParse on the parts of the body the model varies:
\* answers needs one element at least, every fieldId one character at least.
\* The result is the list of zod issues, as {path, message}.
createResponseSchema(body) ==
    IF Len(body.answers) = 0
    THEN << [path |-> <<"answers">>, message |-> "At least one answer is required"] >>
    ELSE LET bad == SelectSeq([i \in 1..Len(body.answers) |-> i],
                              LAMBDA i : body.answers[i].fieldId = "")
         IN  [k \in 1..Len(bad) |->
                 [path |-> <<"answers", bad[k] - 1, "fieldId">>,
                  message |-> "Field ID is required"]]

\* fieldMap.has(fieldId)
fieldMapHas(formFields, fieldId) ==
    \E i \in 1..Len(formFields) : formFields[i].id = fieldId

\* UnreferencedIssues with the membership test run on the first answer only.
UnreferencedIssues_FirstOnly(formFields, answers) ==
    LET outside == SelectSeq(SubSeq(answers, 1, 1),
                             LAMBDA a : ~\E i \in 1..Len(formFields) : formFields[i].id = a.fieldId)
    IN  [k \in 1..Len(outside) |->
            [fieldId |-> outside[k].fieldId, message |-> "Field does not belong to this form"]]

\* payload.answers.forEach: flag answers targeting fields outside this form.
UnreferencedIssues(formFields, answers) ==
    LET outside == SelectSeq(answers, LAMBDA a : ~fieldMapHas(formFields, a.fieldId))
    IN  [k \in 1..Len(outside) |->
            Issue(outside[k].fieldId, "Field does not belong to this form")]

\* parseOptions: the string values of the option objects, falsy ones dropped.
parseOptions(raw) ==
    IF raw = None THEN <<>> ELSE SelectSeq(Get(raw), LAMBDA value : value # <<>>)

ensureString(value) == IF value.t = "string" THEN Some(value.v) ELSE None

ensureStringArray(value) == IF value.t = "array" THEN Some(value.v) ELSE None

\* value ?? ""
OrEmpty(s) == IF s = None THEN <<>> ELSE Get(s)

Includes(seq, x) == \E i \in 1..Len(seq) : seq[i] = x

\* isValidDate, on the strings of the model: Date.parse accepts the
\* four-digit ISO year form and none of the model's other strings.
isValidDate(value) ==
    /\ value # <<>>
    /\ Len(value) = 4
    /\ \A i \in 1..4 : IsDigit(value[i])

\* emailRegex.test: /^[^\s@]+@[^\s@]+\.[^\s@]+$/
EmailChar(c) == c \notin Whitespace /\ c # "@"

emailRegex(s) ==
    \E i \in 2..Len(s) : \E j \in (i + 2)..(Len(s) - 1) :
        /\ s[i] = "@"
        /\ s[j] = "."
        /\ \A k \in 1..Len(s) : (k # i /\ k # j) => EmailChar(s[k])

\* answers.findLast in place of answers.find.
FindAnswer_Last(answers, fieldId) ==
    IF \E i \in 1..Len(answers) : answers[i].fieldId = fieldId
    THEN Some(answers[CHOOSE i \in 1..Len(answers) :
                         /\ answers[i].fieldId = fieldId
                         /\ \A j \in (i + 1)..Len(answers) : answers[j].fieldId # fieldId])
    ELSE None

\* payload.answers.find((entry) => entry.fieldId === field.id)
FindAnswer(answers, fieldId) ==
    IF \E i \in 1..Len(answers) : answers[i].fieldId = fieldId
    THEN Some(answers[CHOOSE i \in 1..Len(answers) :
                         /\ answers[i].fieldId = fieldId
                         /\ \A j \in 1..(i - 1) : answers[j].fieldId # fieldId])
    ELSE None

Outcome(iss, ans) == [issues |-> iss, persist |-> ans]

addIssue(field, message) == Outcome(<< Issue(field.id, message) >>, <<>>)

pushAnswer(field, value) == Outcome(<<>>, << PersistedAnswer(field.id, value) >>)

Skip == Outcome(<<>>, <<>>)

\* case "short_text" / "long_text"
TextBranch(field, rawValue) ==
    LET value == Trim(OrEmpty(ensureString(rawValue)))
    IN  IF field.required /\ Len(value) = 0 THEN addIssue(field, "Response is required")
        ELSE IF ~field.required /\ Len(value) = 0 THEN Skip
        ELSE pushAnswer(field, StringValue(value))

\* The email branch testing the answer as it was sent, untrimmed.
EmailBranch_NoTrim(field, rawValue) ==
    LET value == OrEmpty(ensureString(rawValue))
    IN  IF field.required /\ Len(value) = 0 THEN addIssue(field, "Email is required")
        ELSE IF Len(value) > 0 /\ ~emailRegex(value)
             THEN addIssue(field, "Email format looks invalid")
        ELSE IF ~field.required /\ Len(value) = 0 THEN Skip
        ELSE pushAnswer(field, StringValue(value))

\* case "email"
EmailBranch(field, rawValue) ==
    LET value == Trim(OrEmpty(ensureString(rawValue)))
    IN  IF field.required /\ Len(value) = 0 THEN addIssue(field, "Email is required")
        ELSE IF Len(value) > 0 /\ ~emailRegex(value)
             THEN addIssue(field, "Email format looks invalid")
        ELSE IF ~field.required /\ Len(value) = 0 THEN Skip
        ELSE pushAnswer(field, StringValue(value))

\* The number branch without its typeof rawValue === "string" arm: only JSON
\* numbers are taken.
NumberBranch_NumbersOnly(field, rawValue) ==
    LET value == IF rawValue.t = "number" THEN Some(rawValue.v) ELSE None
    IN  IF value = None
        THEN (IF field.required THEN addIssue(field, "Number is required")
              ELSE addIssue(field, "Number could not be parsed"))
        ELSE pushAnswer(field, NumberValue(Get(value)))

\* The number branch reporting every unparsable answer as such, required or
\* not.
NumberBranch_NoRequiredMessage(field, rawValue) ==
    LET emptyString == rawValue.t = "string" /\ Len(Trim(rawValue.v)) = 0
        value == IF rawValue.t = "number" THEN Some(rawValue.v)
                 ELSE IF rawValue.t = "string" /\ IsNumeric(Trim(rawValue.v))
                      THEN Some(NumberOf(Trim(rawValue.v)))
                 ELSE None
    IN  IF emptyString
        THEN (IF field.required THEN addIssue(field, "Number is required") ELSE Skip)
        ELSE IF value = None
             THEN addIssue(field, "Number could not be parsed")
        ELSE pushAnswer(field, NumberValue(Get(value)))

\* case "number"
NumberBranch(field, rawValue) ==
    LET emptyString == rawValue.t = "string" /\ Len(Trim(rawValue.v)) = 0
        value == IF rawValue.t = "number" THEN Some(rawValue.v)
                 ELSE IF rawValue.t = "string" /\ IsNumeric(Trim(rawValue.v))
                      THEN Some(NumberOf(Trim(rawValue.v)))
                 ELSE None
    IN  IF emptyString
        THEN (IF field.required THEN addIssue(field, "Number is required") ELSE Skip)
        ELSE IF value = None
             THEN (IF field.required THEN addIssue(field, "Number is required")
                   ELSE addIssue(field, "Number could not be parsed"))
        ELSE pushAnswer(field, NumberValue(Get(value)))

\* The dropdown branch comparing the answer with the first option only.
DropdownBranch_FirstOptionOnly(field, rawValue) ==
    LET value == OrEmpty(ensureString(rawValue))
        options == parseOptions(field.options)
    IN  IF field.required /\ Len(value) = 0 THEN addIssue(field, "Selection is required")
        ELSE IF Len(value) = 0 THEN Skip
        ELSE IF Len(options) > 0 /\ options[1] # value
             THEN addIssue(field, "Selected option is invalid")
        ELSE pushAnswer(field, StringValue(value))

\* case "dropdown"
DropdownBranch(field, rawValue) ==
    LET value == OrEmpty(ensureString(rawValue))
        options == parseOptions(field.options)
    IN  IF field.required /\ Len(value) = 0 THEN addIssue(field, "Selection is required")
        ELSE IF Len(value) = 0 THEN Skip
        ELSE IF Len(options) > 0 /\ ~Includes(options, value)
             THEN addIssue(field, "Selected option is invalid")
        ELSE pushAnswer(field, StringValue(value))

\* case "checkbox"
CheckboxBranch(field, rawValue) ==
    LET values == ensureStringArray(rawValue)
        options == parseOptions(field.options)
    IN  IF values = None \/ Len(OrEmpty(values)) = 0
        THEN (IF field.required THEN addIssue(field, "At least one option is required")
              ELSE Skip)
        ELSE IF Len(options) > 0
                /\ Len(SelectSeq(Get(values), LAMBDA entry : ~Includes(options, entry))) > 0
             THEN addIssue(field, "One or more options are invalid")
        ELSE pushAnswer(field, ArrayValue(Get(values)))

\* case "date"
DateBranch(field, rawValue) ==
    LET value == OrEmpty(ensureString(rawValue))
    IN  IF field.required /\ Len(value) = 0 THEN addIssue(field, "Date is required")
        ELSE IF Len(value) > 0 /\ ~isValidDate(value)
             THEN addIssue(field, "Date could not be parsed")
        ELSE IF ~field.required /\ Len(value) = 0 THEN Skip
        ELSE pushAnswer(field, StringValue(value))

\* The body of form.fields.forEach reporting a field that has no answer as
\* missing, required or not.
ProcessField_AbsentIsMissing(field, answers) ==
    LET found == FindAnswer(answers, field.id)
        answer == Get(found)
    IN  IF found = None
        THEN addIssue(field, "Required field is missing")
        ELSE CASE field.type \in {"short_text", "long_text"} -> TextBranch(field, answer.value)
               [] field.type = "email" -> EmailBranch(field, answer.value)
               [] field.type = "number" -> NumberBranch(field, answer.value)
               [] field.type = "dropdown" -> DropdownBranch(field, answer.value)
               [] field.type = "checkbox" -> CheckboxBranch(field, answer.value)
               [] field.type = "date" -> DateBranch(field, answer.value)
               [] OTHER -> addIssue(field, "Unsupported field type")

\* The body of form.fields.forEach((field) => ...): one field's issues and
\* normalized answers.
ProcessField(field, answers) ==
    LET found == FindAnswer(answers, field.id)
        answer == Get(found)
    IN  IF found = None
        THEN (IF field.required THEN addIssue(field, "Required field is missing") ELSE Skip)
        ELSE CASE field.type \in {"short_text", "long_text"} -> TextBranch(field, answer.value)
               [] field.type = "email" -> EmailBranch(field, answer.value)
               [] field.type = "number" -> NumberBranch(field, answer.value)
               [] field.type = "dropdown" -> DropdownBranch(field, answer.value)
               [] field.type = "checkbox" -> CheckboxBranch(field, answer.value)
               [] field.type = "date" -> DateBranch(field, answer.value)
               [] OTHER -> addIssue(field, "Unsupported field type")

\* form.fields.forEach putting each field's answer in front of the answers
\* gathered so far.
RECURSIVE PerFieldPass_Unshift(_, _)
PerFieldPass_Unshift(formFields, answers) ==
    IF formFields = <<>> THEN Skip
    ELSE LET first == ProcessField(Head(formFields), answers)
             rest == PerFieldPass_Unshift(Tail(formFields), answers)
         IN  Outcome(first.issues \o rest.issues, rest.persist \o first.persist)

\* form.fields.forEach stopping at the first field that has an issue.
RECURSIVE PerFieldPass_FailFast(_, _)
PerFieldPass_FailFast(formFields, answers) ==
    IF formFields = <<>> THEN Skip
    ELSE LET first == ProcessField(Head(formFields), answers)
             rest == PerFieldPass_FailFast(Tail(formFields), answers)
         IN  IF first.issues # <<>> THEN first
             ELSE Outcome(first.issues \o rest.issues, first.persist \o rest.persist)

\* form.fields.forEach over the whole schema, in field order.
RECURSIVE PerFieldPass(_, _)
PerFieldPass(formFields, answers) ==
    IF formFields = <<>> THEN Skip
    ELSE LET first == ProcessField(Head(formFields), answers)
             rest == PerFieldPass(Tail(formFields), answers)
         IN  Outcome(first.issues \o rest.issues, first.persist \o rest.persist)

\* "Ensure required answers are not silently skipped": the issues of the
\* second scan over the required fields.
RequiredRescan(formFields, persisted) ==
    LET missing == SelectSeq(formFields,
                       LAMBDA field : field.required
                           /\ ~\E i \in 1..Len(persisted) : persisted[i].fieldId = field.id)
    IN  [k \in 1..Len(missing) |-> Issue(missing[k].id, "Required field is missing")]

\* The issue list and the normalized answers the handler has accumulated when
\* it reaches `if (issues.length > 0)`.
ValidateAnswers(formFields, answers) ==
    LET pass == PerFieldPass(formFields, answers)
    IN  Outcome(UnreferencedIssues(formFields, answers) \o pass.issues
                    \o RequiredRescan(formFields, pass.persist),
                pass.persist)

\* formResponseCreate writing the answer rows one short.
formResponseCreate_DropLast(formId, answers) ==
    [formId |-> formId, answers |-> SubSeq(answers, 1, Len(answers) - 1)]

\* prisma.formResponse.create({data: {formId, answers: {create: [...]}}})
formResponseCreate(formId, answers) == [formId |-> formId, answers |-> answers]

\* The POST handler, from ensureSession to the response.
POST(req) ==
    /\ request = NoRequest /\ httpStatus = 0
    /\ request' = req
    /\ UNCHANGED <<form, builderVars, publishVars, shareVars>>
    /\ IF req.session = "none"
       THEN /\ httpStatus' = 401
            /\ UNCHANGED <<issues, answersToPersist, responseIssues, dbResponses>>
       ELSE IF createResponseSchema(req) # <<>>
       THEN /\ httpStatus' = 422
            /\ responseIssues' = createResponseSchema(req)
            /\ UNCHANGED <<issues, answersToPersist, dbResponses>>
       ELSE IF req.honey # None /\ Len(Trim(Get(req.honey))) > 0
       THEN /\ httpStatus' = 400
            /\ UNCHANGED <<issues, answersToPersist, responseIssues, dbResponses>>
       ELSE IF ~(form.id = req.formId /\ form.ownerId = req.session)
       THEN /\ httpStatus' = 404
            /\ UNCHANGED <<issues, answersToPersist, responseIssues, dbResponses>>
       ELSE LET result == ValidateAnswers(form.fields, req.answers)
            IN  /\ issues' = result.issues
                /\ answersToPersist' = result.persist
                /\ IF Len(issues') > 0
                   THEN /\ httpStatus' = 422
                        /\ responseIssues' =
                               [k \in 1..Len(issues') |->
                                   [path |-> <<issues'[k].fieldId>>,
                                    message |-> issues'[k].message]]
                        /\ UNCHANGED dbResponses
                   ELSE /\ httpStatus' = 201
                        /\ dbResponses' =
                               Append(dbResponses, formResponseCreate(form.id, answersToPersist'))
                        /\ UNCHANGED responseIssues


(***************************************************************************)
(* Inputs of the responses route: form schemas and request bodies.        *)
(***************************************************************************)
sEmpty == <<>>
sBlank == <<" ">>
s2024 == <<"2", "0", "2", "4">>
s2025 == <<"2", "0", "2", "5">>
sEmail == <<"a", "@", "b", ".", "c">>
sOther == <<"z">>

FieldTypes == {"short_text", "long_text", "email", "number", "dropdown", "checkbox", "date"}

\* The field types a stored schema is drawn from: the seven of FieldType and
\* one the switch has no case for.
SchemaTypes == FieldTypes \cup {"rating"}

FieldIdPool == <<"f1", "f2", "f3", "f4">>

UnknownFieldId == "zz"

\* A stored field as form.fields selects it: {id, type, required, options}.
SchemaField(i, type, required) ==
    [id |-> FieldIdPool[i], type |-> type, required |-> required,
     options |-> IF type \in {"dropdown", "checkbox"} THEN Some(<<s2024, s2025>>) ELSE None]

SchemasOfLen(n) ==
    { [i \in 1..n |-> SchemaField(i, tr[i][1], tr[i][2])] :
          tr \in [1..n -> SchemaTypes \X BOOLEAN] }

Schemas == UNION { SchemasOfLen(n) : n \in 0..MaxSchemaFields }

AnswerValues ==
    { StringValue(sEmpty), StringValue(s2024), StringValue(sEmail), ArrayValue(<<s2024>>) }

AnswerFieldIds == { FieldIdPool[i] : i \in 1..MaxSchemaFields } \cup {UnknownFieldId}

Answers == [fieldId : AnswerFieldIds, value : AnswerValues]

AnswerLists == UNION { [1..n -> Answers] : n \in 0..MaxAnswers }

\* Bodies that probe the guards in front of the validation passes.
GuardProbes ==
    { <<>>,
      << [fieldId |-> "", value |-> StringValue(s2024)] >>,
      << [fieldId |-> FieldIdPool[1], value |-> StringValue(s2024)] >> }

Requests ==
    { [session |-> "owner", formId |-> "F", honey |-> None, answers |-> a] :
          a \in AnswerLists }
    \cup
    [session : {"none", "owner", "other"}, formId : {"F", "G"},
     honey : {None, Some(sBlank), Some(sOther)}, answers : GuardProbes]

(***************************************************************************)
(* Share route: POST /api/forms/[formId]/share                             *)
(***************************************************************************)
\* The share creation requests a behaviour holds at most.
MaxShareRequests == 2

ShareCallIds == 1..MaxShareRequests

\* The values randomBytes(16).toString("hex") is drawn from.
TokenPool == 1..(MaxShareRequests + 1)

\* A request that has not arrived.
IdleCall ==
    [pc |-> "idle", session |-> "none", formId |-> "", password |-> None,
     existing |-> None, status |-> 0, share |-> None]

\* shareLinkSchema.safeParse on the part of the body the model varies: a
\* password has 6 to 64 characters.
shareLinkSchema(body) ==
    body.password = None \/ (Len(Get(body.password)) >= 6 /\ Len(Get(body.password)) <= 64)

\* The share link a response carries, for a formShareToken row.
shareLink(row) ==
    [formId |-> row.formId, token |-> row.token,
     requiresPassword |-> row.passwordHash # None]

\* prisma.formShareToken.findFirst({where: {formId}, orderBy: {createdAt: "desc"}})
findFirstShareToken(formId) ==
    LET rows == SelectSeq(shareTokens, LAMBDA row : row.formId = formId)
    IN  IF rows = <<>> THEN None ELSE Some(rows[Len(rows)])

\* The handler from its start to the await of formShareToken.findFirst: the
\* session, body and form guards.
ShareBegin(r, session, formId, body) ==
    /\ shareCalls[r].pc = "idle"
    /\ shareCalls' =
           [shareCalls EXCEPT ![r] =
               [@ EXCEPT !.session = session, !.formId = formId, !.password = body.password,
                         !.pc = IF session = "none" \/ ~shareLinkSchema(body)
                                   \/ ~(form.id = formId /\ form.ownerId = session)
                                THEN "done" ELSE "findExisting",
                         !.status = IF session = "none" THEN 401
                                    ELSE IF ~shareLinkSchema(body) THEN 422
                                    ELSE IF ~(form.id = formId /\ form.ownerId = session)
                                         THEN 404
                                    ELSE 0]]
    /\ UNCHANGED <<shareTokens, postVars, builderVars, publishVars>>

\* const existing = await prisma.formShareToken.findFirst(...)
ShareFindExisting(r) ==
    /\ shareCalls[r].pc = "findExisting"
    /\ shareCalls' =
           [shareCalls EXCEPT ![r] =
               [@ EXCEPT !.existing = findFirstShareToken(form.id), !.pc = "respond"]]
    /\ UNCHANGED <<shareTokens, postVars, builderVars, publishVars>>

\* The rest of the handler: the existing share link is returned with status
\* 200, or a row with a fresh token is created and returned with status 201.
ShareRespond(r) ==
    /\ shareCalls[r].pc = "respond"
    /\ IF shareCalls[r].existing # None
       THEN /\ shareCalls' =
                   [shareCalls EXCEPT ![r] =
                       [@ EXCEPT !.pc = "done", !.status = 200,
                                 !.share = Some(shareLink(Get(shareCalls[r].existing)))]]
            /\ UNCHANGED shareTokens
       ELSE \E token \in TokenPool :
                /\ \A k \in 1..Len(shareTokens) : shareTokens[k].token # token
                /\ LET created == [formId |-> form.id, ownerId |-> form.ownerId,
                                   token |-> token,
                                   passwordHash |-> IF shareCalls[r].password = None
                                                       \/ shareCalls[r].password = Some(<<>>)
                                                    THEN None
                                                    ELSE Some(<<"sha256",
                                                                Get(shareCalls[r].password)>>)]
                   IN  /\ shareTokens' = Append(shareTokens, created)
                       /\ shareCalls' =
                              [shareCalls EXCEPT ![r] =
                                  [@ EXCEPT !.pc = "done", !.status = 201,
                                            !.share = Some(shareLink(created))]]
    /\ UNCHANGED <<postVars, builderVars, publishVars>>

(***************************************************************************)
(* Builder: types, createId, defaultThemePalette, initialState,            *)
(* fieldTemplates.                                                         *)
(***************************************************************************)
\* The ids createId draws from are 1..MaxId; a behaviour dispatches MaxSteps
\* actions at most.
MaxId == 11
MaxSteps == 3
MaxPublishes == 2

ThemeModes == {"light", "dark"}

BuilderModes == {"edit", "preview"}

ThemeTags == {"formTitle", "sectionTitle", "label", "helper", "input", "button"}

SurfaceKeys == {"background", "panel", "card", "border", "text", "muted"}

\* fontOptions[0].value
SystemSans == "system-ui, -apple-system, BlinkMacSystemFont, \"Segoe UI\", sans-serif"

ThemeToken(color, fontSize, fontWeight) ==
    [color |-> color, fontSize |-> fontSize, fontFamily |-> SystemSans,
     fontWeight |-> fontWeight]

FilledThemeToken(color, fontSize, fontWeight, background, borderColor) ==
    [color |-> color, fontSize |-> fontSize, fontFamily |-> SystemSans,
     fontWeight |-> fontWeight, background |-> background, borderColor |-> borderColor]

defaultThemePalette ==
    [light |->
        [background |-> "#f1f5f9", panel |-> "#ffffff", card |-> "#ffffff",
         border |-> "#e2e8f0", text |-> "#0f172a", muted |-> "#64748b",
         tokens |->
            [formTitle |-> ThemeToken("#0f172a", "1.875rem", 600),
             sectionTitle |-> ThemeToken("#0f172a", "1.25rem", 600),
             label |-> ThemeToken("#0f172a", "0.95rem", 500),
             helper |-> ThemeToken("#64748b", "0.85rem", 400),
             input |-> FilledThemeToken("#0f172a", "1rem", 500, "#ffffff", "#cbd5f5"),
             button |-> FilledThemeToken("#ffffff", "1rem", 600, "#2563eb", "#2563eb")]],
     dark |->
        [background |-> "#0f172a", panel |-> "#111827", card |-> "#111827",
         border |-> "#1f2937", text |-> "#f8fafc", muted |-> "#94a3b8",
         tokens |->
            [formTitle |-> ThemeToken("#f8fafc", "1.875rem", 600),
             sectionTitle |-> ThemeToken("#f1f5f9", "1.25rem", 600),
             label |-> ThemeToken("#e2e8f0", "0.95rem", 500),
             helper |-> ThemeToken("#94a3b8", "0.85rem", 400),
             input |-> FilledThemeToken("#f8fafc", "1rem", 500, "#1f2937", "#334155"),
             button |-> FilledThemeToken("#0f172a", "1rem", 600, "#38bdf8", "#38bdf8")]]]

\* Field ids and option ids (createId results) are 1..MaxId; NullId is the
\* null of selectedFieldId.
NullId == 0

Ids == 1..MaxId

\* A FormField; an attribute the object lacks is None.
FormField(id, type, label, description, placeholder, required, options, minLength, step) ==
    [id |-> id, type |-> type, label |-> label, description |-> description,
     placeholder |-> placeholder, required |-> required, options |-> options,
     minLength |-> minLength, maxLength |-> None, min |-> None, max |-> None,
     step |-> step]

FieldOption(id, label, value) == [id |-> id, label |-> label, value |-> value]

lblFullName == <<"F", "u", "l", "l", " ", "n", "a", "m", "e">>
lblWorkEmail == <<"W", "o", "r", "k", " ", "e", "m", "a", "i", "l">>
lblProjectType == <<"P", "r", "o", "j", "e", "c", "t", " ", "t", "y", "p", "e">>
lblShortText == <<"S", "h", "o", "r", "t", " ", "t", "e", "x", "t">>
lblLongText == <<"L", "o", "n", "g", " ", "t", "e", "x", "t">>
lblEmail == <<"E", "m", "a", "i", "l">>
lblNumber == <<"N", "u", "m", "b", "e", "r">>
lblDropdown == <<"D", "r", "o", "p", "d", "o", "w", "n">>
lblCheckboxes == <<"C", "h", "e", "c", "k", "b", "o", "x", "e", "s">>
lblDate == <<"D", "a", "t", "e">>

\* initialState; createId has returned 1..6, in the order of the calls.
ttlProjectInquiry ==
    <<"P", "r", "o", "j", "e", "c", "t", " ", "i", "n", "q", "u", "i", "r", "y">>

initialState ==
    [fields |->
        << FormField(1, "short_text", lblFullName,
                     Some("We use this to personalise your experience."),
                     Some("Jane Doe"), TRUE, None, Some(2), None),
           FormField(2, "email", lblWorkEmail,
                     Some("We will never share your email."),
                     Some("name@company.com"), TRUE, None, None, None),
           FormField(3, "dropdown", lblProjectType,
                     Some("Select the service you are interested in."),
                     None, TRUE,
                     Some(<< FieldOption(4, "Website redesign", "website"),
                             FieldOption(5, "Mobile app", "mobile"),
                             FieldOption(6, "Design system", "design-system") >>),
                     None, None) >>,
     selectedFieldId |-> NullId,
     formMeta |->
        [title |-> ttlProjectInquiry,
         description |->
            "Tell us about your project. We will get back to you within two working days.",
         submitLabel |-> "Send request"],
     mode |-> "edit",
     theme |-> [mode |-> "light", palette |-> defaultThemePalette]]

\* The number of createId calls fieldTemplates[type].create() makes.
TemplateIdCount(type) == IF type \in {"dropdown", "checkbox"} THEN 3 ELSE 1

\* fieldTemplates[type].create(), createId returning ids[1], ids[2], ...
fieldTemplates(type, ids) ==
    CASE type = "short_text" ->
            FormField(ids[1], type, lblShortText, None, Some("Enter text"), FALSE,
                      None, None, None)
      [] type = "long_text" ->
            FormField(ids[1], type, lblLongText, None, Some("Write your response"), FALSE,
                      None, None, None)
      [] type = "email" ->
            FormField(ids[1], type, lblEmail, None, Some("email@example.com"), TRUE,
                      None, None, None)
      [] type = "number" ->
            FormField(ids[1], type, lblNumber, None, Some("0"), FALSE, None, None, Some(1))
      [] type = "dropdown" ->
            FormField(ids[1], type, lblDropdown, None, None, FALSE,
                      Some(<< FieldOption(ids[2], "Option A", "option-a"),
                              FieldOption(ids[3], "Option B", "option-b") >>),
                      None, None)
      [] type = "checkbox" ->
            FormField(ids[1], type, lblCheckboxes, None, None, FALSE,
                      Some(<< FieldOption(ids[2], "Option 1", "option-1"),
                              FieldOption(ids[3], "Option 2", "option-2") >>),
                      None, None)
      [] type = "date" ->
            FormField(ids[1], type, lblDate, None, None, FALSE, None, None, None)


(***************************************************************************)
(* builderReducer                                                          *)
(***************************************************************************)
\* Array.prototype.findIndex over the field ids: 0-based, -1 when absent.
findIndex(fieldSeq, id) ==
    IF \E i \in 1..Len(fieldSeq) : fieldSeq[i].id = id
    THEN (CHOOSE i \in 1..Len(fieldSeq) :
              /\ fieldSeq[i].id = id
              /\ \A j \in 1..(i - 1) : fieldSeq[j].id # id) - 1
    ELSE -1

\* array.splice(index, 0, item) on a copy: insert item at 0-based index.
SpliceInsert(seq, index, item) ==
    SubSeq(seq, 1, index) \o <<item>> \o SubSeq(seq, index + 1, Len(seq))

\* array.splice(index, 1) on a copy: drop the element at 0-based index.
SpliceRemove(seq, index) ==
    SubSeq(seq, 1, index) \o SubSeq(seq, index + 2, Len(seq))

\* {...object, ...changes}
Merge(object, changes) ==
    [k \in (DOMAIN object) \cup (DOMAIN changes) |->
        IF k \in DOMAIN changes THEN changes[k] ELSE object[k]]

ToLowerCase(c) ==
    CASE c = "C" -> "c" [] c = "O" -> "o" [] c = "P" -> "p" [] c = "Y" -> "y" [] OTHER -> c

CopyMarker == <<"(", "c", "o", "p", "y", ")">>

CopySuffix == <<" ">> \o CopyMarker

DoubledMarker == CopyMarker \o CopySuffix

\* /\(copy\) \(copy\)$/i .test(s)
EndsWithDoubledMarker(s) ==
    /\ Len(s) >= Len(DoubledMarker)
    /\ \A k \in 1..Len(DoubledMarker) :
           ToLowerCase(s[Len(s) - Len(DoubledMarker) + k]) = DoubledMarker[k]

\* CloneLabel without the replace of the doubled marker.
CloneLabel_NoCollapse(label) == Trim(label \o CopySuffix)

\* `${label} (copy)`.replace(/\(copy\) \(copy\)$/i, "(copy)").trim()
CloneLabel(label) ==
    LET suffixed == label \o CopySuffix
    IN  Trim(IF EndsWithDoubledMarker(suffixed)
             THEN SubSeq(suffixed, 1, Len(suffixed) - Len(DoubledMarker)) \o CopyMarker
             ELSE suffixed)

\* ADD_FIELD putting the field in front (unshift for push).
ReduceAddField_Prepend(state, payload) ==
    [state EXCEPT !.fields = <<payload>> \o state.fields,
                  !.selectedFieldId = payload.id]

\* case "ADD_FIELD"
ReduceAddField(state, payload) ==
    [state EXCEPT !.fields = Append(state.fields, payload),
                  !.selectedFieldId = payload.id]

\* REMOVE_FIELD with the filter's test turned round (=== for !==).
ReduceRemoveField_KeepOnlyField(state, id) ==
    [state EXCEPT !.fields = SelectSeq(state.fields, LAMBDA field : field.id = id),
                  !.selectedFieldId =
                      IF state.selectedFieldId = id THEN NullId ELSE state.selectedFieldId]

\* REMOVE_FIELD leaving the selection as it was.
ReduceRemoveField_KeepSelection(state, id) ==
    [state EXCEPT !.fields = SelectSeq(state.fields, LAMBDA field : field.id # id)]

\* case "REMOVE_FIELD"
ReduceRemoveField(state, id) ==
    [state EXCEPT !.fields = SelectSeq(state.fields, LAMBDA field : field.id # id),
                  !.selectedFieldId =
                      IF state.selectedFieldId = id THEN NullId ELSE state.selectedFieldId]

\* The clone with the id of its source left in place.
CloneField_KeepId(field, ids) ==
    [field EXCEPT !.label = CloneLabel(field.label),
                  !.options =
                      IF field.options = None THEN None
                      ELSE Some([k \in 1..Len(Get(field.options)) |->
                                    [Get(field.options)[k] EXCEPT !.id = ids[k + 1]]])]

\* CloneField handing the source's option objects to the clone.
CloneField_SharedOptions(field, ids) ==
    [field EXCEPT !.id = ids[1], !.label = CloneLabel(field.label)]

\* The clone DUPLICATE_FIELD builds; createId returns ids[1] for the field and
\* ids[2], ... for its options.
CloneField(field, ids) ==
    [field EXCEPT !.id = ids[1],
                  !.label = CloneLabel(field.label),
                  !.options =
                      IF field.options = None THEN None
                      ELSE Some([k \in 1..Len(Get(field.options)) |->
                                    [Get(field.options)[k] EXCEPT !.id = ids[k + 1]]])]

\* case "DUPLICATE_FIELD"
ReduceDuplicateField(state, id, ids) ==
    LET index == findIndex(state.fields, id)
    IN  IF index = -1 THEN state
        ELSE LET clone == CloneField(state.fields[index + 1], ids)
             IN  [state EXCEPT !.fields = SpliceInsert(state.fields, index + 1, clone),
                               !.selectedFieldId = clone.id]

\* case "SELECT_FIELD"
ReduceSelectField(state, id) == [state EXCEPT !.selectedFieldId = id]

\* UPDATE_FIELD merging the changes over every field.
ReduceUpdateField_EveryField(state, id, changes) ==
    [state EXCEPT !.fields =
        [i \in 1..Len(state.fields) |-> Merge(state.fields[i], changes)]]

\* case "UPDATE_FIELD"
ReduceUpdateField(state, id, changes) ==
    [state EXCEPT !.fields =
        [i \in 1..Len(state.fields) |->
            IF state.fields[i].id = id THEN Merge(state.fields[i], changes)
            ELSE state.fields[i]]]

\* REORDER_FIELD putting the moved field over the one at the target position
\* (splice(targetIndex, 1, removed)) instead of in front of it.
ReduceReorderField_Overwrite(state, id, direction) ==
    LET index == findIndex(state.fields, id)
        targetIndex == IF direction = "up" THEN index - 1 ELSE index + 1
        rest == SpliceRemove(state.fields, index)
    IN  IF index = -1 THEN state
        ELSE IF targetIndex < 0 \/ targetIndex >= Len(state.fields) THEN state
        ELSE [state EXCEPT !.fields =
                 IF targetIndex < Len(rest)
                 THEN [rest EXCEPT ![targetIndex + 1] = state.fields[index + 1]]
                 ELSE Append(rest, state.fields[index + 1])]

\* REORDER_FIELD without the test for an absent field: with index -1 and
\* direction down, splice(-1, 1) takes the last field and puts it first.
ReduceReorderField_NoAbsentCheck(state, id, direction) ==
    LET index == findIndex(state.fields, id)
        targetIndex == IF direction = "up" THEN index - 1 ELSE index + 1
        last == Len(state.fields)
    IN  IF targetIndex < 0 \/ targetIndex >= Len(state.fields) THEN state
        ELSE IF index = -1
             THEN [state EXCEPT !.fields =
                      <<state.fields[last]>> \o SubSeq(state.fields, 1, last - 1)]
        ELSE [state EXCEPT !.fields =
                 SpliceInsert(SpliceRemove(state.fields, index), targetIndex,
                              state.fields[index + 1])]

\* REORDER_FIELD wrapping around at the two ends.
ReduceReorderField_Wrap(state, id, direction) ==
    LET index == findIndex(state.fields, id)
        n == Len(state.fields)
        targetIndex == IF direction = "up" THEN (index - 1 + n) % n ELSE (index + 1) % n
    IN  IF index = -1 THEN state
        ELSE [state EXCEPT !.fields =
                 SpliceInsert(SpliceRemove(state.fields, index), targetIndex,
                              state.fields[index + 1])]

\* case "REORDER_FIELD"
ReduceReorderField(state, id, direction) ==
    LET index == findIndex(state.fields, id)
        targetIndex == IF direction = "up" THEN index - 1 ELSE index + 1
    IN  IF index = -1 THEN state
        ELSE IF targetIndex < 0 \/ targetIndex >= Len(state.fields) THEN state
        ELSE [state EXCEPT !.fields =
                 SpliceInsert(SpliceRemove(state.fields, index), targetIndex,
                              state.fields[index + 1])]

\* case "UPDATE_FORM_META"
ReduceUpdateFormMeta(state, changes) ==
    [state EXCEPT !.formMeta = Merge(state.formMeta, changes)]

\* case "SET_MODE"
ReduceSetMode(state, payload) == [state EXCEPT !.mode = payload]

\* case "SET_THEME_MODE"
ReduceSetThemeMode(state, payload) == [state EXCEPT !.theme.mode = payload]

\* UPDATE_THEME_TOKEN writing to the light snapshot whatever the mode is.
ReduceUpdateThemeToken_Light(state, tag, key, value) ==
    LET current == state.theme.palette["light"]
    IN  [state EXCEPT !.theme.palette["light"] =
            Merge(current,
                  [tokens |-> Merge(current.tokens,
                                    [t \in {tag} |->
                                        Merge(current.tokens[tag],
                                              [k \in {key} |-> value])])])]

\* UPDATE_THEME_TOKEN without the spread of current.tokens.
ReduceUpdateThemeToken_NoSpread(state, tag, key, value) ==
    LET current == state.theme.palette[state.theme.mode]
    IN  [state EXCEPT !.theme.palette[state.theme.mode] =
            Merge(current,
                  [tokens |-> [t \in {tag} |->
                                  Merge(current.tokens[tag], [k \in {key} |-> value])]])]

\* case "UPDATE_THEME_TOKEN"
ReduceUpdateThemeToken(state, tag, key, value) ==
    LET current == state.theme.palette[state.theme.mode]
    IN  [state EXCEPT !.theme.palette[state.theme.mode] =
            Merge(current,
                  [tokens |-> Merge(current.tokens,
                                    [t \in {tag} |->
                                        Merge(current.tokens[tag],
                                              [k \in {key} |-> value])])])]

\* case "UPDATE_THEME_SURFACE"
ReduceUpdateThemeSurface(state, key, value) ==
    LET current == state.theme.palette[state.theme.mode]
    IN  [state EXCEPT !.theme.palette[state.theme.mode] =
            Merge(current, [k \in {key} |-> value])]

\* builderReducer(state, action); ids are the results of the createId calls
\* made while the action is applied.
builderReducer(state, action, ids) ==
    CASE action.type = "ADD_FIELD" -> ReduceAddField(state, action.payload)
      [] action.type = "REMOVE_FIELD" -> ReduceRemoveField(state, action.payload.id)
      [] action.type = "DUPLICATE_FIELD" -> ReduceDuplicateField(state, action.payload.id, ids)
      [] action.type = "SELECT_FIELD" -> ReduceSelectField(state, action.payload.id)
      [] action.type = "UPDATE_FIELD" ->
            ReduceUpdateField(state, action.payload.id, action.payload.changes)
      [] action.type = "REORDER_FIELD" ->
            ReduceReorderField(state, action.payload.id, action.payload.direction)
      [] action.type = "UPDATE_FORM_META" -> ReduceUpdateFormMeta(state, action.payload)
      [] action.type = "SET_MODE" -> ReduceSetMode(state, action.payload)
      [] action.type = "SET_THEME_MODE" -> ReduceSetThemeMode(state, action.payload)
      [] action.type = "UPDATE_THEME_TOKEN" ->
            ReduceUpdateThemeToken(state, action.payload.tag, action.payload.key,
                                   action.payload.value)
      [] action.type = "UPDATE_THEME_SURFACE" ->
            ReduceUpdateThemeSurface(state, action.payload.key, action.payload.value)
      [] OTHER -> state

(***************************************************************************)
(* The builder as a state machine: useReducer(builderReducer, initialState)*)
(* and the dispatches of the component.                                    *)
(***************************************************************************)
BuilderState ==
    [fields |-> fields, selectedFieldId |-> selectedFieldId, formMeta |-> formMeta,
     mode |-> mode, theme |-> theme]

NoAction == [type |-> "@@INIT"]

InitBuilderState ==
    /\ fields = initialState.fields
    /\ selectedFieldId = initialState.selectedFieldId
    /\ formMeta = initialState.formMeta
    /\ mode = initialState.mode
    /\ theme = initialState.theme
    /\ lastAction = NoAction
    /\ steps = 0
    /\ publishing = FALSE
    /\ alerts = <<>>
    /\ fetchCalls = <<>>
    /\ routerPushes = <<>>
    /\ shareTokens = <<>>
    /\ shareCalls = [r \in ShareCallIds |-> IdleCall]

\* The ids in the form: field ids and option ids.
FieldIds(fieldSeq) == { fieldSeq[i].id : i \in 1..Len(fieldSeq) }

OptionIds(fieldSeq) ==
    UNION { IF fieldSeq[i].options = None THEN {}
            ELSE { Get(fieldSeq[i].options)[k].id : k \in 1..Len(Get(fieldSeq[i].options)) } :
            i \in 1..Len(fieldSeq) }

UsedIds(fieldSeq) == FieldIds(fieldSeq) \cup OptionIds(fieldSeq)

\* createId: crypto.randomUUID(). The results of n calls in a row are n
\* distinct ids the form does not hold; which ones is not determined.
SortedUnused(fieldSeq) ==
    LET unused == Ids \ UsedIds(fieldSeq)
    IN  [k \in 1..Cardinality(unused) |->
            CHOOSE x \in unused : Cardinality({y \in unused : y < x}) = k - 1]

createId(fieldSeq, n) ==
    LET unused == SortedUnused(fieldSeq)
    IN  { [k \in 1..n |-> unused[k + offset]] :
              offset \in { o \in {0, 1} : n + o <= Len(unused) } }

\* useReducer's dispatch: the state becomes builderReducer(state, action).
Dispatch(action, ids) ==
    LET next == builderReducer(BuilderState, action, ids)
    IN  /\ steps < MaxSteps
        /\ steps' = steps + 1
        /\ fields' = next.fields
        /\ selectedFieldId' = next.selectedFieldId
        /\ formMeta' = next.formMeta
        /\ mode' = next.mode
        /\ theme' = next.theme
        /\ lastAction' = action
        /\ UNCHANGED <<postVars, publishVars, shareVars>>

ADD_FIELD(type) ==
    \E ids \in createId(fields, TemplateIdCount(type)) :
        Dispatch([type |-> "ADD_FIELD", payload |-> fieldTemplates(type, ids)], <<>>)

REMOVE_FIELD(id) == Dispatch([type |-> "REMOVE_FIELD", payload |-> [id |-> id]], <<>>)

\* The number of createId calls DUPLICATE_FIELD makes for the field with this id.
CloneIdCount(fieldSeq, id) ==
    LET index == findIndex(fieldSeq, id)
    IN  IF index = -1 THEN 0
        ELSE IF fieldSeq[index + 1].options = None THEN 1
        ELSE 1 + Len(Get(fieldSeq[index + 1].options))

DUPLICATE_FIELD(id) ==
    \E ids \in createId(fields, CloneIdCount(fields, id)) :
        Dispatch([type |-> "DUPLICATE_FIELD", payload |-> [id |-> id]], ids)

SELECT_FIELD(id) == Dispatch([type |-> "SELECT_FIELD", payload |-> [id |-> id]], <<>>)

UPDATE_FIELD(id, changes) ==
    Dispatch([type |-> "UPDATE_FIELD", payload |-> [id |-> id, changes |-> changes]], <<>>)

REORDER_FIELD(id, direction) ==
    Dispatch([type |-> "REORDER_FIELD", payload |-> [id |-> id, direction |-> direction]], <<>>)

UPDATE_FORM_META(changes) == Dispatch([type |-> "UPDATE_FORM_META", payload |-> changes], <<>>)

SET_MODE(payload) == Dispatch([type |-> "SET_MODE", payload |-> payload], <<>>)

SET_THEME_MODE(payload) == Dispatch([type |-> "SET_THEME_MODE", payload |-> payload], <<>>)

UPDATE_THEME_TOKEN(tag, key, value) ==
    Dispatch([type |-> "UPDATE_THEME_TOKEN",
              payload |-> [tag |-> tag, key |-> key, value |-> value]], <<>>)

UPDATE_THEME_SURFACE(key, value) ==
    Dispatch([type |-> "UPDATE_THEME_SURFACE", payload |-> [key |-> key, value |-> value]], <<>>)

\* Payloads of the dispatches. The ids an action names are those of the
\* fields in the form, those of the initial fields (stale once the field is
\* removed) and one id no field ever has.
ttlHi == <<"H", "i">>

StaleId == MaxId + 1

ActionIds == FieldIds(fields) \cup FieldIds(initialState.fields) \cup {StaleId}

AddTypes == {"short_text", "dropdown"}

FieldChanges == { [required |-> FALSE], [id |-> 1] }

NextBuilder ==
    \/ \E type \in AddTypes : ADD_FIELD(type)
    \/ \E id \in ActionIds : REMOVE_FIELD(id)
    \/ \E id \in ActionIds : DUPLICATE_FIELD(id)
    \/ \E id \in ActionIds \cup {NullId} : SELECT_FIELD(id)
    \/ \E id \in ActionIds : \E changes \in FieldChanges : UPDATE_FIELD(id, changes)
    \/ \E id \in ActionIds : \E direction \in {"up", "down"} : REORDER_FIELD(id, direction)
    \/ UPDATE_FORM_META([title |-> ttlHi])
    \/ \E m \in BuilderModes : SET_MODE(m)
    \/ \E m \in ThemeModes : SET_THEME_MODE(m)
    \/ UPDATE_THEME_TOKEN("label", "color", "#ff0000")
    \/ UPDATE_THEME_SURFACE("background", "#000000")

InitBuilder ==
    /\ InitBuilderState
    /\ form = [id |-> "F", ownerId |-> "owner", fields |-> <<>>]
    /\ request = NoRequest
    /\ issues = <<>>
    /\ answersToPersist = <<>>
    /\ httpStatus = 0
    /\ responseIssues = <<>>
    /\ dbResponses = <<>>

SpecBuilder == InitBuilder /\ [][NextBuilder]_vars

\* The responses route: one request against a stored form; the builder is at
\* rest.
InitPost ==
    /\ InitBuilderState
    /\ form \in { [id |-> "F", ownerId |-> "owner", fields |-> fs] : fs \in Schemas }
    /\ request = NoRequest
    /\ issues = <<>>
    /\ answersToPersist = <<>>
    /\ httpStatus = 0
    /\ responseIssues = <<>>
    /\ dbResponses = <<>>

NextPost == \E req \in Requests : POST(req)

SpecPost == InitPost /\ [][NextPost]_vars

(***************************************************************************)
(* Properties of the responses route.                                      *)
(***************************************************************************)
\* The request passed the session, body, honeypot and form lookup guards, so
\* the validation passes ran.
ReachedValidation ==
    /\ httpStatus # 0
    /\ request.session # "none"
    /\ createResponseSchema(request) = <<>>
    /\ ~(request.honey # None /\ Len(Trim(Get(request.honey))) > 0)
    /\ form.id = request.formId /\ form.ownerId = request.session

IssuesFor(fieldId) == SelectSeq(issues, LAMBDA issue : issue.fieldId = fieldId)

\* C1: answers are persisted if and only if the issue list is empty. With an
\* issue recorded no response row (and so no answer row) is created; with
\* none, one create call receives all the normalized answers together. A
\* request stopped by a guard creates nothing either.
C1_PersistIffNoIssues ==
    /\ ReachedValidation =>
          /\ (Len(issues) > 0) => dbResponses = <<>>
          /\ (Len(issues) = 0) =>
                dbResponses = << [formId |-> form.id, answers |-> answersToPersist] >>
    /\ ~ReachedValidation => dbResponses = <<>>

\* C1 witness: a submission with a valid in-scope answer and an issue: the
\* valid answer is normalized and nothing is written.
C1_Witness ==
    /\ ReachedValidation
    /\ Len(issues) > 0
    /\ Len(answersToPersist) > 0
    /\ dbResponses = <<>>

\* C2: for a schema (of one field at least) whose fields are all required, the
\* empty answer set yields one issue per field, each "Required field is
\* missing".
C2_EmptyAnswersOneIssuePerField ==
    ( /\ httpStatus # 0
      /\ request.session = form.ownerId /\ request.formId = form.id
      /\ request.honey = None
      /\ request.answers = <<>>
      /\ Len(form.fields) > 0
      /\ \A i \in 1..Len(form.fields) : form.fields[i].required )
    => /\ Len(responseIssues) = Len(form.fields)
       /\ \A k \in 1..Len(responseIssues) :
              responseIssues[k].message = "Required field is missing"

\* C3: the final issue list holds at most one issue per schema field.
C3_AtMostOneIssuePerField ==
    ReachedValidation =>
        \A i \in 1..Len(form.fields) : Len(IssuesFor(form.fields[i].id)) <= 1

\* C4: every answer whose fieldId is no field of the schema has its issue
\* "Field does not belong to this form" in the issue list, whatever the other
\* answers are, and no answer with that fieldId is normalized or written.
C4_UnreferencedAnswerFlagged ==
    ReachedValidation =>
        \A i \in 1..Len(request.answers) :
            LET fieldId == request.answers[i].fieldId
            IN  (~\E f \in 1..Len(form.fields) : form.fields[f].id = fieldId) =>
                    /\ \E k \in 1..Len(issues) :
                           issues[k] = [fieldId |-> fieldId,
                                        message |-> "Field does not belong to this form"]
                    /\ \A k \in 1..Len(answersToPersist) :
                           answersToPersist[k].fieldId # fieldId
                    /\ \A r \in 1..Len(dbResponses) :
                           \A k \in 1..Len(dbResponses[r].answers) :
                               dbResponses[r].answers[k].fieldId # fieldId

\* C4 witness: a valid answer to a schema field comes first and an answer to
\* an unknown field follows it.
C4_Witness ==
    /\ ReachedValidation
    /\ Len(request.answers) = 2
    /\ request.answers[1].fieldId = FieldIdPool[1]
    /\ request.answers[2].fieldId = UnknownFieldId
    /\ \E k \in 1..Len(answersToPersist) : answersToPersist[k].fieldId = FieldIdPool[1]
    /\ \E k \in 1..Len(issues) : issues[k].fieldId = UnknownFieldId


(***************************************************************************)
(* The builder with label edits: the label input of the field editor       *)
(* (UPDATE_FIELD with a label) and the duplicate buttons.                  *)
(***************************************************************************)
lblN == <<"N">>
lblNCopy == lblN \o CopySuffix

LabelInputs ==
    { lblN, lblNCopy, <<>>, <<" ">> \o lblN, lblN \o <<" ">>, lblN \o CopyMarker,
      lblN \o <<" ", "(", "C", "O", "P", "Y", ")">>, CopyMarker, CopySuffix }

NextLabel ==
    \/ \E id \in FieldIds(fields) : \E label \in LabelInputs :
           UPDATE_FIELD(id, [label |-> label])
    \/ \E id \in FieldIds(fields) : DUPLICATE_FIELD(id)

SpecLabel == InitBuilder /\ [][NextLabel]_vars

(***************************************************************************)
(* Properties of the builder reducer.                                      *)
(***************************************************************************)
ValidSelection(selected, fieldSeq) == selected = NullId \/ selected \in FieldIds(fieldSeq)

FieldActionTypes ==
    {"REMOVE_FIELD", "DUPLICATE_FIELD", "SELECT_FIELD", "UPDATE_FIELD", "REORDER_FIELD"}

\* The 1-based position of the first field with this id (0 when absent).
PositionOf(fieldSeq, id) ==
    IF id \in FieldIds(fieldSeq)
    THEN CHOOSE i \in 1..Len(fieldSeq) :
             fieldSeq[i].id = id /\ \A j \in 1..(i - 1) : fieldSeq[j].id # id
    ELSE 0

EndsWith(s, suffix) ==
    /\ Len(s) >= Len(suffix)
    /\ SubSeq(s, Len(s) - Len(suffix) + 1, Len(s)) = suffix

EndsWithAnyCase(s, suffix) ==
    /\ Len(s) >= Len(suffix)
    /\ \A k \in 1..Len(suffix) : ToLowerCase(s[Len(s) - Len(suffix) + k]) = suffix[k]

\* C5: in every reachable state selectedFieldId is null or the id of a field
\* in the field sequence.
C5_SelectionAlwaysValid == ValidSelection(selectedFieldId, fields)

\* C5 as amended: SELECT_FIELD stores its payload whether or not a field has
\* that id, so the selection can dangle. A selection that is null or names a
\* field of the form stays so under every action except a SELECT_FIELD of an
\* id not in the form and an UPDATE_FIELD whose changes carry an id.
C5_SelectionPreserved ==
    [][ LET a == lastAction'
            dangles == /\ a.type = "SELECT_FIELD"
                       /\ a.payload.id \notin FieldIds(fields) \cup {NullId}
            rewrites == /\ a.type = "UPDATE_FIELD"
                        /\ "id" \in DOMAIN a.payload.changes
        IN  (ValidSelection(selectedFieldId, fields) /\ ~dangles /\ ~rewrites)
                => ValidSelection(selectedFieldId', fields') ]_vars

\* C5 witness: a field of the form was selected, another field was then
\* removed, and the selection still names a field of the form.
C5_Witness ==
    /\ steps = 2
    /\ lastAction.type = "REMOVE_FIELD"
    /\ lastAction.payload.id \notin FieldIds(fields)
    /\ Len(fields) = Len(initialState.fields) - 1
    /\ selectedFieldId # NullId
    /\ selectedFieldId \in FieldIds(fields)

PairwiseDistinctIds(fieldSeq) ==
    \A i \in 1..Len(fieldSeq) : \A j \in 1..Len(fieldSeq) :
        i # j => fieldSeq[i].id # fieldSeq[j].id

\* C6: in every reachable state the ids of the fields are pairwise distinct.
C6_FieldIdsDistinct == PairwiseDistinctIds(fields)

\* C6 as amended: UPDATE_FIELD merges its changes over the field, an id among
\* them included, so the reducer relies on its callers for the ids in
\* UPDATE_FIELD changes as it does for those in ADD_FIELD payloads. With
\* ADD_FIELD payloads and createId results being ids the form does not hold,
\* every action other than an UPDATE_FIELD whose changes carry an id takes
\* fields with pairwise distinct ids to fields with pairwise distinct ids.
C6_FieldIdsStayDistinct ==
    [][ LET a == lastAction'
            rewrites == /\ a.type = "UPDATE_FIELD"
                        /\ "id" \in DOMAIN a.payload.changes
        IN  (PairwiseDistinctIds(fields) /\ ~rewrites)
                => PairwiseDistinctIds(fields') ]_vars

\* C6 witness: a field was added and a field was duplicated, and the five
\* fields have five ids.
C6_Witness ==
    /\ steps = 2
    /\ lastAction.type = "DUPLICATE_FIELD"
    /\ Len(fields) = Len(initialState.fields) + 2
    /\ Cardinality(FieldIds(fields)) = Len(fields)

Swapped(fieldSeq, i, j) ==
    [k \in 1..Len(fieldSeq) |->
        IF k = i THEN fieldSeq[j] ELSE IF k = j THEN fieldSeq[i] ELSE fieldSeq[k]]

\* C8: REORDER_FIELD(id, direction) with the field present at position i
\* returns an equal state when i is the first position and the direction is
\* up, or the last and down; otherwise the fields at i and its neighbour in
\* that direction are exchanged and every other position is unchanged.
C8_ReorderSwapsNeighbours ==
    [][ LET a == lastAction'
            i == PositionOf(fields, a.payload.id)
            j == IF a.payload.direction = "up" THEN i - 1 ELSE i + 1
        IN  (a.type = "REORDER_FIELD" /\ i # 0)
            => IF j < 1 \/ j > Len(fields)
               THEN BuilderState' = BuilderState
               ELSE fields' = Swapped(fields, i, j) ]_vars

\* C8 witness: the second of three fields was moved up and is now first.
C8_Witness ==
    /\ steps = 1
    /\ lastAction.type = "REORDER_FIELD"
    /\ lastAction.payload.direction = "up"
    /\ Len(fields) = 3
    /\ fields[1] = initialState.fields[2]
    /\ fields[2] = initialState.fields[1]
    /\ fields[3] = initialState.fields[3]

\* The clone equals its source but for the id, the label and the option ids.
IsCloneOf(clone, source) ==
    /\ \A k \in (DOMAIN source) \ {"id", "label", "options"} : clone[k] = source[k]
    /\ (source.options = None) <=> (clone.options = None)
    /\ source.options # None =>
          /\ Len(Get(clone.options)) = Len(Get(source.options))
          /\ \A k \in 1..Len(Get(source.options)) :
                 /\ Get(clone.options)[k].label = Get(source.options)[k].label
                 /\ Get(clone.options)[k].value = Get(source.options)[k].value

\* C9: DUPLICATE_FIELD(id) with the source at position i yields a sequence
\* one longer; position i+1 holds a clone whose id and option ids are ids
\* the form did not hold; the positions up to i are unchanged and the later
\* ones shifted by one; selectedFieldId is the clone's id.
C9_DuplicateInsertsClone ==
    [][ LET a == lastAction'
            i == PositionOf(fields, a.payload.id)
        IN  (a.type = "DUPLICATE_FIELD" /\ i # 0)
            => /\ Len(fields') = Len(fields) + 1
               /\ IsCloneOf(fields'[i + 1], fields[i])
               /\ UsedIds(<<fields'[i + 1]>>) \cap UsedIds(fields) = {}
               /\ \A k \in 1..i : fields'[k] = fields[k]
               /\ \A k \in (i + 1)..Len(fields) : fields'[k + 1] = fields[k]
               /\ selectedFieldId' = fields'[i + 1].id ]_vars

\* C9 witness: the dropdown with its three options was duplicated; the clone
\* follows it, is selected and has three options.
C9_Witness ==
    /\ steps = 1
    /\ lastAction.type = "DUPLICATE_FIELD"
    /\ lastAction.payload.id = 3
    /\ Len(fields) = 4
    /\ fields[3] = initialState.fields[3]
    /\ fields[4].type = "dropdown"
    /\ Len(Get(fields[4].options)) = 3
    /\ selectedFieldId = fields[4].id

\* C10: the clone of a field whose label does not end in " (copy)" has the
\* source label followed by " (copy)"; the clone of a field whose label ends
\* in " (copy)" has the label of its source.
C10_CloneLabelSuffix ==
    [][ LET a == lastAction'
            i == PositionOf(fields, a.payload.id)
        IN  (a.type = "DUPLICATE_FIELD" /\ i # 0)
            => IF EndsWith(fields[i].label, CopySuffix)
               THEN fields'[i + 1].label = fields[i].label
               ELSE fields'[i + 1].label = fields[i].label \o CopySuffix ]_vars

\* C10 as amended: the clone's label is the source label followed by
\* " (copy)" when the source label is not empty, does not start with
\* whitespace and does not end in "(copy)" in any letter case; it is the
\* source label itself when that does not start with whitespace and ends in
\* "(copy)" in lower case.
C10_CloneLabel ==
    [][ LET a == lastAction'
            i == PositionOf(fields, a.payload.id)
            label == fields[i].label
            clean == label # <<>> /\ Head(label) \notin Whitespace
        IN  (a.type = "DUPLICATE_FIELD" /\ i # 0 /\ clean)
            => /\ ~EndsWithAnyCase(label, CopyMarker)
                     => fields'[i + 1].label = label \o CopySuffix
               /\ EndsWith(label, CopyMarker)
                     => fields'[i + 1].label = label ]_vars

\* C10 witness: a clone labelled "N (copy)" was duplicated, and its clone is
\* labelled "N (copy)" too.
C10_Witness ==
    /\ lastAction.type = "DUPLICATE_FIELD"
    /\ lastAction.payload.id \notin FieldIds(initialState.fields)
    /\ LET i == PositionOf(fields, lastAction.payload.id)
       IN  /\ i # 0 /\ i < Len(fields)
           /\ fields[i].label = lblNCopy
           /\ fields[i + 1].label = lblNCopy
           /\ selectedFieldId = fields[i + 1].id

\* C11: REMOVE_FIELD(id) with the field present at position i yields the
\* sequence without that one field, the others in their order;
\* selectedFieldId becomes null if it was id and is otherwise unchanged.
C11_RemoveDropsThatField ==
    [][ LET a == lastAction'
            i == PositionOf(fields, a.payload.id)
        IN  (a.type = "REMOVE_FIELD" /\ i # 0)
            => /\ Len(fields') = Len(fields) - 1
               /\ \A k \in 1..(i - 1) : fields'[k] = fields[k]
               /\ \A k \in i..(Len(fields) - 1) : fields'[k] = fields[k + 1]
               /\ selectedFieldId' =
                      IF selectedFieldId = a.payload.id THEN NullId
                      ELSE selectedFieldId ]_vars

\* C11 as amended: the filter drops every field with the id, so the claim
\* holds where the field ids are pairwise distinct (two fields share an id
\* after an UPDATE_FIELD whose changes carry one, C6).
C11_RemoveDropsField ==
    [][ LET a == lastAction'
            i == PositionOf(fields, a.payload.id)
        IN  (a.type = "REMOVE_FIELD" /\ i # 0 /\ PairwiseDistinctIds(fields))
            => /\ Len(fields') = Len(fields) - 1
               /\ \A k \in 1..(i - 1) : fields'[k] = fields[k]
               /\ \A k \in i..(Len(fields) - 1) : fields'[k] = fields[k + 1]
               /\ selectedFieldId' =
                      IF selectedFieldId = a.payload.id THEN NullId
                      ELSE selectedFieldId ]_vars

\* C11 witness: the second of the three initial fields was selected and then
\* removed; the first and the third remain and nothing is selected.
C11_Witness ==
    /\ steps = 2
    /\ lastAction = [type |-> "REMOVE_FIELD", payload |-> [id |-> initialState.fields[2].id]]
    /\ fields = <<initialState.fields[1], initialState.fields[3]>>
    /\ selectedFieldId = NullId

\* C12: ADD_FIELD(field) yields the previous sequence with field appended as
\* its last element and selects field.id.
C12_AddAppendsAndSelects ==
    [][ LET a == lastAction'
        IN  a.type = "ADD_FIELD"
            => /\ Len(fields') = Len(fields) + 1
               /\ \A k \in 1..Len(fields) : fields'[k] = fields[k]
               /\ fields'[Len(fields) + 1] = a.payload
               /\ selectedFieldId' = a.payload.id ]_vars

\* C12 witness: a dropdown was added to the three initial fields; it is the
\* fourth field and is selected.
C12_Witness ==
    /\ steps = 1
    /\ lastAction.type = "ADD_FIELD"
    /\ Len(fields) = 4
    /\ SubSeq(fields, 1, 3) = initialState.fields
    /\ fields[4].type = "dropdown"
    /\ selectedFieldId = fields[4].id

\* C13: UPDATE_FIELD(id, changes) gives the attributes named in changes their
\* new values in the field matching id and leaves its other attributes,
\* every other field, the order, the selection, the form metadata and the
\* theme unchanged.
C13_UpdateFieldFrame ==
    [][ LET a == lastAction'
        IN  (a.type = "UPDATE_FIELD" /\ a.payload.id \in FieldIds(fields))
            => /\ Len(fields') = Len(fields)
               /\ \A k \in 1..Len(fields) :
                      IF fields[k].id = a.payload.id
                      THEN /\ DOMAIN fields'[k] = DOMAIN fields[k]
                           /\ \A attr \in DOMAIN fields[k] :
                                  fields'[k][attr] =
                                      IF attr \in DOMAIN a.payload.changes
                                      THEN a.payload.changes[attr]
                                      ELSE fields[k][attr]
                      ELSE fields'[k] = fields[k]
               /\ selectedFieldId' = selectedFieldId
               /\ formMeta' = formMeta
               /\ theme' = theme
               /\ mode' = mode ]_vars

\* C13 witness: the first field, required at the start, was made optional;
\* its label is as before and the second field is untouched.
C13_Witness ==
    /\ steps = 1
    /\ lastAction.type = "UPDATE_FIELD"
    /\ lastAction.payload = [id |-> initialState.fields[1].id, changes |-> [required |-> FALSE]]
    /\ initialState.fields[1].required
    /\ ~fields[1].required
    /\ fields[1].label = initialState.fields[1].label
    /\ fields[2] = initialState.fields[2]

(***************************************************************************)
(* The builder with theme edits: the mode switch and the colour, size and  *)
(* weight controls of the theme panel.                                     *)
(***************************************************************************)
TokenStringKeys == {"color", "background"}

NextTheme ==
    \/ \E m \in ThemeModes : SET_THEME_MODE(m)
    \/ \E tag \in ThemeTags : \E key \in TokenStringKeys :
           UPDATE_THEME_TOKEN(tag, key, "#ff0000")
    \/ \E tag \in ThemeTags : UPDATE_THEME_TOKEN(tag, "fontWeight", 700)
    \/ \E key \in SurfaceKeys : UPDATE_THEME_SURFACE(key, "#00ff00")

SpecTheme == InitBuilder /\ [][NextTheme]_vars

InactiveMode(m) == IF m = "light" THEN "dark" ELSE "light"

\* C14: UPDATE_THEME_TOKEN and UPDATE_THEME_SURFACE change the snapshot of
\* the active theme mode only: the snapshot of the inactive mode, tokens and
\* surface colours, is what it was before, whichever mode is active.
C14_InactiveSnapshotUntouched ==
    [][ lastAction'.type \in {"UPDATE_THEME_TOKEN", "UPDATE_THEME_SURFACE"}
        => /\ theme'.mode = theme.mode
           /\ theme'.palette[InactiveMode(theme.mode)] =
                  theme.palette[InactiveMode(theme.mode)] ]_vars

\* C14 witness: in dark mode the label colour was changed; the dark label
\* has the new colour and the light snapshot is the default one.
C14_Witness ==
    /\ steps = 2
    /\ theme.mode = "dark"
    /\ lastAction.type = "UPDATE_THEME_TOKEN"
    /\ lastAction.payload = [tag |-> "label", key |-> "color", value |-> "#ff0000"]
    /\ theme.palette.dark.tokens.label.color = "#ff0000"
    /\ theme.palette.light = defaultThemePalette.light

\* C15: in every reachable state the light and the dark snapshot each hold
\* one token for each of the six tags, and no other.
C15_OneTokenPerTag ==
    \A m \in ThemeModes :
        /\ DOMAIN theme.palette = ThemeModes
        /\ DOMAIN theme.palette[m].tokens = ThemeTags
        /\ \A tag \in ThemeTags :
               {"color", "fontSize", "fontFamily", "fontWeight"}
                   \subseteq DOMAIN theme.palette[m].tokens[tag]

\* C15 witness: the helper token, which has no background at the start, was
\* given one; the snapshot still has its six tokens and the helper token its
\* colour.
C15_Witness ==
    /\ lastAction.type = "UPDATE_THEME_TOKEN"
    /\ lastAction.payload.tag = "helper"
    /\ lastAction.payload.key = "background"
    /\ theme.palette[theme.mode].tokens.helper.background = "#ff0000"
    /\ theme.palette[theme.mode].tokens.helper.color =
           defaultThemePalette[theme.mode].tokens.helper.color
    /\ DOMAIN theme.palette[theme.mode].tokens = ThemeTags

\* Two applications of the action to the present state, each with its own
\* createId results (n calls), give equal states.
SameResult(action, n) ==
    \A ids1 \in createId(fields, n) : \A ids2 \in createId(fields, n) :
        builderReducer(BuilderState, action, ids1) = builderReducer(BuilderState, action, ids2)

\* C16: builderReducer is deterministic: for every state and action, of each
\* of the eleven types, two applications of the action to the state give
\* equal states.
C16_ReducerDeterministic ==
    /\ \A type \in AddTypes : \A ids \in createId(fields, TemplateIdCount(type)) :
           SameResult([type |-> "ADD_FIELD", payload |-> fieldTemplates(type, ids)], 0)
    /\ \A id \in ActionIds :
           /\ SameResult([type |-> "REMOVE_FIELD", payload |-> [id |-> id]], 0)
           /\ SameResult([type |-> "DUPLICATE_FIELD", payload |-> [id |-> id]],
                         CloneIdCount(fields, id))
           /\ SameResult([type |-> "SELECT_FIELD", payload |-> [id |-> id]], 0)
           /\ \A changes \in FieldChanges :
                  SameResult([type |-> "UPDATE_FIELD",
                              payload |-> [id |-> id, changes |-> changes]], 0)
           /\ \A direction \in {"up", "down"} :
                  SameResult([type |-> "REORDER_FIELD",
                              payload |-> [id |-> id, direction |-> direction]], 0)
    /\ SameResult([type |-> "UPDATE_FORM_META", payload |-> [title |-> ttlHi]], 0)
    /\ \A m \in BuilderModes : SameResult([type |-> "SET_MODE", payload |-> m], 0)
    /\ \A m \in ThemeModes : SameResult([type |-> "SET_THEME_MODE", payload |-> m], 0)
    /\ SameResult([type |-> "UPDATE_THEME_TOKEN",
                   payload |-> [tag |-> "label", key |-> "color", value |-> "#ff0000"]], 0)
    /\ SameResult([type |-> "UPDATE_THEME_SURFACE",
                   payload |-> [key |-> "background", value |-> "#000000"]], 0)

(***************************************************************************)
(* The builder with the option editor of the field settings panel.         *)
(***************************************************************************)
\* state.fields.find((field) => field.id === state.selectedFieldId) ?? null
selectedField ==
    LET index == findIndex(fields, selectedFieldId)
    IN  IF index = -1 THEN None ELSE Some(fields[index + 1])

\* The option editor is rendered for a selected dropdown or checkbox field.
isOptionField ==
    /\ selectedField # None
    /\ Get(selectedField).type \in {"dropdown", "checkbox"}

\* field.options ?? []
editorOptions ==
    IF Get(selectedField).options = None THEN <<>> ELSE Get(Get(selectedField).options)

\* The onUpdate of the field settings panel.
onUpdate(changes) == UPDATE_FIELD(Get(selectedField).id, changes)

handleOptionChange(optionId, value) ==
    /\ isOptionField
    /\ onUpdate([options |->
            Some([k \in 1..Len(editorOptions) |->
                     IF editorOptions[k].id = optionId
                     THEN [editorOptions[k] EXCEPT !.label = value, !.value = value]
                     ELSE editorOptions[k]])])

handleRemove(optionId) ==
    /\ isOptionField
    /\ onUpdate([options |->
            Some(SelectSeq(editorOptions, LAMBDA option : option.id # optionId))])

handleAdd ==
    /\ isOptionField
    /\ \E ids \in createId(fields, 1) :
           LET index == Len(editorOptions) + 1
           IN  onUpdate([options |->
                   Some(Append(editorOptions,
                               FieldOption(ids[1], "Option " \o ToString(index),
                                           "option-" \o ToString(index))))])

OptionTexts == {"x", "y"}

NextOptions ==
    \/ \E id \in FieldIds(fields) : SELECT_FIELD(id)
    \/ \E optionId \in OptionIds(fields) : \E value \in OptionTexts :
           handleOptionChange(optionId, value)
    \/ \E optionId \in OptionIds(fields) : handleRemove(optionId)
    \/ handleAdd

SpecOptions == InitBuilder /\ [][NextOptions]_vars

\* C17: after any sequence of option-editor operations (add, remove, rename)
\* the option values of a dropdown or checkbox field are pairwise distinct.
C17_OptionValuesDistinct ==
    \A i \in 1..Len(fields) :
        fields[i].options # None =>
            LET options == Get(fields[i].options)
            IN  \A j \in 1..Len(options) : \A k \in 1..Len(options) :
                    j # k => options[j].value # options[k].value

(***************************************************************************)
(* The builder with the publish button: publishForm and the outcome of its *)
(* request.                                                                *)
(***************************************************************************)
TitleAlert == "Please provide a title of at least 3 characters before publishing."

FieldsAlert == "Add at least one field before publishing the form."

\* The body publishForm sends.
publishPayload ==
    [title |-> formMeta.title,
     description |-> formMeta.description,
     fields |-> [k \in 1..Len(fields) |->
                    [id |-> fields[k].id, label |-> fields[k].label,
                     type |-> fields[k].type, required |-> fields[k].required,
                     options |-> fields[k].options]]]

\* publishForm up to its await. The publish button is disabled while
\* publishing is set, and the handler returns at once if it is.
publishForm_NoFieldCheck ==
    /\ ~publishing
    /\ Len(alerts) + Len(fetchCalls) < MaxPublishes
    /\ lastAction' = [type |-> "publishForm"]
    /\ IF Len(Trim(formMeta.title)) < 3
       THEN /\ alerts' = Append(alerts, TitleAlert)
            /\ UNCHANGED <<publishing, fetchCalls>>
       ELSE /\ publishing' = TRUE
            /\ fetchCalls' = Append(fetchCalls, publishPayload)
            /\ UNCHANGED alerts
    /\ UNCHANGED <<postVars, shareVars, fields, selectedFieldId, formMeta, mode, theme, steps,
                   routerPushes>>

publishForm ==
    /\ ~publishing
    /\ Len(alerts) + Len(fetchCalls) < MaxPublishes
    /\ lastAction' = [type |-> "publishForm"]
    /\ IF Len(Trim(formMeta.title)) < 3
       THEN /\ alerts' = Append(alerts, TitleAlert)
            /\ UNCHANGED <<publishing, fetchCalls>>
       ELSE IF Len(fields) = 0
       THEN /\ alerts' = Append(alerts, FieldsAlert)
            /\ UNCHANGED <<publishing, fetchCalls>>
       ELSE /\ publishing' = TRUE
            /\ fetchCalls' = Append(fetchCalls, publishPayload)
            /\ UNCHANGED alerts
    /\ UNCHANGED <<postVars, shareVars, fields, selectedFieldId, formMeta, mode, theme, steps,
                   routerPushes>>

\* The rest of publishForm, once the request has settled: res.ok, !res.ok
\* with the response text, or a rejected fetch; finally resets publishing.
fetchSettles(outcome) ==
    /\ publishing
    /\ lastAction' = [type |-> "fetchSettles", outcome |-> outcome]
    /\ publishing' = FALSE
    /\ CASE outcome = "ok" ->
               /\ routerPushes' = Append(routerPushes, "/owner")
               /\ UNCHANGED alerts
         [] outcome = "notOk" ->
               /\ alerts' = Append(alerts, "Failed to publish form: " \o "Invalid payload")
               /\ UNCHANGED routerPushes
         [] outcome = "throws" ->
               /\ alerts' = Append(alerts,
                                   "An unexpected error occurred when publishing the form.")
               /\ UNCHANGED routerPushes
    /\ UNCHANGED <<postVars, shareVars, fields, selectedFieldId, formMeta, mode, theme, steps,
                   fetchCalls>>

ttlEmpty == <<>>
ttlAb == <<"a", "b">>
ttlAbBlank == <<"a", "b", " ">>
ttlAbc == <<"a", "b", "c">>

PublishTitles == {ttlEmpty, ttlAb, ttlAbBlank, ttlAbc}

NextPublish ==
    \/ \E title \in PublishTitles : UPDATE_FORM_META([title |-> title])
    \/ \E id \in FieldIds(fields) : REMOVE_FIELD(id)
    \/ publishForm
    \/ \E outcome \in {"ok", "notOk", "throws"} : fetchSettles(outcome)

SpecPublish == InitBuilder /\ [][NextPublish]_vars

\* C18: publishForm sends the create-form request only when the title has
\* at least 3 characters and there is at least one field; when either fails,
\* a rejection reason is shown and no request is sent.
C18_PublishPreconditions ==
    [][ LET met == Len(formMeta.title) >= 3 /\ Len(fields) >= 1
        IN  /\ fetchCalls' # fetchCalls
                  => /\ met
                     /\ lastAction'.type = "publishForm"
                     /\ fetchCalls' = Append(fetchCalls, publishPayload)
            /\ (lastAction'.type = "publishForm" /\ ~met)
                  => /\ fetchCalls' = fetchCalls
                     /\ \E reason \in {TitleAlert, FieldsAlert} :
                            alerts' = Append(alerts, reason) ]_vars

\* C18 witness: a first publish sent its request; then, with every field
\* removed, a second publish was refused with the reason about the fields.
C18_Witness ==
    /\ lastAction.type = "publishForm"
    /\ fields = <<>>
    /\ Len(fetchCalls) = 1
    /\ Len(fetchCalls[1].fields) = Len(initialState.fields)
    /\ alerts = <<FieldsAlert>>

(***************************************************************************)
(* From the builder to the responses route: the forms route stores the     *)
(* fields publishForm sends, and the responses route validates against the *)
(* stored fields.                                                          *)
(***************************************************************************)
\* POST of the forms route: the field rows created from the parsed payload.
\* createFormSchema keeps id, label, type, required and, of each option,
\* label and value.
fieldsToCreate(payload) ==
    [idx \in 1..Len(payload.fields) |->
        [label |-> payload.fields[idx].label,
         type |-> payload.fields[idx].type,
         required |-> payload.fields[idx].required,
         options |-> IF payload.fields[idx].options = None THEN None
                     ELSE Some([k \in 1..Len(Get(payload.fields[idx].options)) |->
                                   [label |-> Get(payload.fields[idx].options)[k].label,
                                    value |-> Get(payload.fields[idx].options)[k].value]]),
         sortOrder |-> idx - 1]]

\* The form row with its field rows as the responses route selects them;
\* the data store gives the rows their ids.
StoredForm(payload) ==
    LET rows == fieldsToCreate(payload)
    IN  [id |-> "F", ownerId |-> "owner",
         fields |-> [k \in 1..Len(rows) |->
                        [id |-> FieldIdPool[k], type |-> rows[k].type,
                         required |-> rows[k].required,
                         options |-> IF rows[k].options = None THEN None
                                     ELSE Some([j \in 1..Len(Get(rows[k].options)) |->
                                                   Get(rows[k].options)[j].value])]]]

\* Text fields as the field settings panel leaves them.
TextFieldInputs ==
    { [FormField(1, type, lblN, None, None, required, None, minLength, None)
          EXCEPT !.maxLength = maxLength] :
          type \in {"short_text", "long_text"}, required \in BOOLEAN,
          minLength \in {None, Some(2)}, maxLength \in {None, Some(3)} }

TextAnswers ==
    { <<>>, <<" ">>, <<"z">>, <<"z", "z">>, <<"z", "z", "z">>, <<"z", "z", "z", "z">>,
      <<" ", "z", " ">>, <<"z", "z", "z", " ">> }

TextRequests ==
    { [session |-> "owner", formId |-> "F", honey |-> None,
       answers |-> << [fieldId |-> FieldIdPool[1], value |-> StringValue(v)] >>] :
          v \in TextAnswers }

\* A form of one text field was built and published; a response arrives.
InitText ==
    /\ fields \in { <<f>> : f \in TextFieldInputs }
    /\ selectedFieldId = NullId
    /\ formMeta = initialState.formMeta
    /\ mode = initialState.mode
    /\ theme = initialState.theme
    /\ lastAction = NoAction
    /\ steps = 0
    /\ publishing = FALSE
    /\ alerts = <<>>
    /\ fetchCalls = <<publishPayload>>
    /\ routerPushes = <<"/owner">>
    /\ shareTokens = <<>>
    /\ shareCalls = [r \in ShareCallIds |-> IdleCall]
    /\ form = StoredForm(publishPayload)
    /\ request = NoRequest
    /\ issues = <<>>
    /\ answersToPersist = <<>>
    /\ httpStatus = 0
    /\ responseIssues = <<>>
    /\ dbResponses = <<>>

NextText == \E req \in TextRequests : POST(req)

SpecText == InitText /\ [][NextText]_vars

\* C19: for a short_text or long_text field and an answer that is not empty
\* once trimmed, an issue is recorded whenever the answer's length is below
\* the field's minLength or above its maxLength, and the answer is accepted
\* only when its length is within the bounds.
C19_TextLengthBounds ==
    (ReachedValidation /\ Len(request.answers) = 1 /\ request.answers[1].value.t = "string")
    => LET field == fields[1]
           value == Trim(request.answers[1].value.v)
           below == field.minLength # None /\ Len(value) < Get(field.minLength)
           above == field.maxLength # None /\ Len(value) > Get(field.maxLength)
       IN  Len(value) > 0 =>
               /\ (below \/ above) => Len(IssuesFor(form.fields[1].id)) > 0
               /\ Len(answersToPersist) > 0 => ~(below \/ above)

(***************************************************************************)
(* The responses route with a number field first in the form.              *)
(***************************************************************************)
s42 == <<"4", "2">>
s42Padded == <<" ", "4", "2", " ">>
s007 == <<"0", "0", "7">>
sAbc == <<"a", "b", "c">>
s4Blank2 == <<"4", " ", "2">>

NumberAnswerValues ==
    { StringValue(s42), StringValue(s42Padded), StringValue(s007), StringValue(sAbc),
      StringValue(s4Blank2), StringValue(sEmpty), StringValue(sBlank),
      NumberValue(42), BooleanValue(TRUE) }

\* A number field, alone or followed by a field of any type.
NumberSchemas ==
    { <<SchemaField(1, "number", required)>> : required \in BOOLEAN }
    \cup
    { <<SchemaField(1, "number", required), SchemaField(2, tr[1], tr[2])>> :
          required \in BOOLEAN, tr \in SchemaTypes \X BOOLEAN }

NumberRequests ==
    { [session |-> "owner", formId |-> "F", honey |-> None,
       answers |-> << [fieldId |-> FieldIdPool[1], value |-> v] >>] :
          v \in NumberAnswerValues }

InitNumber ==
    /\ InitBuilderState
    /\ form \in { [id |-> "F", ownerId |-> "owner", fields |-> fs] : fs \in NumberSchemas }
    /\ request = NoRequest
    /\ issues = <<>>
    /\ answersToPersist = <<>>
    /\ httpStatus = 0
    /\ responseIssues = <<>>
    /\ dbResponses = <<>>

NextNumber == \E req \in NumberRequests : POST(req)

SpecNumber == InitNumber /\ [][NextNumber]_vars

\* C20: on a number field, a string that parses to a finite number is
\* normalized to that number ("42" to 42); an unparsable answer on a
\* required field gives "Number is required" and not "Number could not be
\* parsed"; an unparsable, non-empty answer on a non-required field gives
\* "Number could not be parsed".
C20_NumberCoercion ==
    (ReachedValidation /\ request.answers[1].value.t = "string")
    => LET field == form.fields[1]
           v == request.answers[1].value.v
           messages == { IssuesFor(field.id)[k].message : k \in 1..Len(IssuesFor(field.id)) }
       IN  /\ \A pair \in {<<s42, 42>>, <<s42Padded, 42>>, <<s007, 7>>} :
                  v = pair[1] =>
                      /\ messages = {}
                      /\ answersToPersist[1] =
                             [fieldId |-> field.id, value |-> NumberValue(pair[2])]
           /\ (v \in {sAbc, s4Blank2} /\ field.required) =>
                  /\ "Number is required" \in messages
                  /\ "Number could not be parsed" \notin messages
                  /\ \A k \in 1..Len(answersToPersist) :
                         answersToPersist[k].fieldId # field.id
           /\ (v \in {sAbc, s4Blank2} /\ ~field.required) =>
                  /\ messages = {"Number could not be parsed"}
                  /\ \A k \in 1..Len(answersToPersist) :
                         answersToPersist[k].fieldId # field.id

\* C20 witness: "abc" was sent for a required number field and refused with
\* "Number is required".
C20_Witness ==
    /\ ReachedValidation
    /\ form.fields[1].required
    /\ request.answers[1].value = StringValue(sAbc)
    /\ httpStatus = 422
    /\ \E k \in 1..Len(issues) :
           issues[k] = Issue(form.fields[1].id, "Number is required")

(***************************************************************************)
(* A number field with min, max and step set in the builder, published,    *)
(* and answered.                                                           *)
(***************************************************************************)
s12 == <<"1", "2">>
s15 == <<"1", "5">>

\* Number fields as the field settings panel leaves them.
RangeFieldInputs ==
    { [FormField(1, "number", lblNumber, None, None, required, None, None, step)
          EXCEPT !.min = min, !.max = max] :
          required \in BOOLEAN, min \in {None, Some(10)}, max \in {None, Some(20)},
          step \in {None, Some(1), Some(5)} }

\* Finite numeric answers: JSON numbers and strings of digits, inside and
\* outside 10..20, on and off the steps of 5.
FiniteAnswerValues ==
    { NumberValue(-3), NumberValue(7), NumberValue(15), NumberValue(42),
      StringValue(s007), StringValue(s12), StringValue(s15), StringValue(s42Padded) }

RangeRequests ==
    { [session |-> "owner", formId |-> "F", honey |-> None,
       answers |-> << [fieldId |-> FieldIdPool[1], value |-> v] >>] :
          v \in FiniteAnswerValues \cup {StringValue(sAbc)} }

InitRange ==
    /\ fields \in { <<f>> : f \in RangeFieldInputs }
    /\ selectedFieldId = NullId
    /\ formMeta = initialState.formMeta
    /\ mode = initialState.mode
    /\ theme = initialState.theme
    /\ lastAction = NoAction
    /\ steps = 0
    /\ publishing = FALSE
    /\ alerts = <<>>
    /\ fetchCalls = <<publishPayload>>
    /\ routerPushes = <<"/owner">>
    /\ shareTokens = <<>>
    /\ shareCalls = [r \in ShareCallIds |-> IdleCall]
    /\ form = StoredForm(publishPayload)
    /\ request = NoRequest
    /\ issues = <<>>
    /\ answersToPersist = <<>>
    /\ httpStatus = 0
    /\ responseIssues = <<>>
    /\ dbResponses = <<>>

NextRange == \E req \in RangeRequests : POST(req)

SpecRange == InitRange /\ [][NextRange]_vars

\* The number a finite numeric answer stands for.
NumericOf(value) ==
    IF value.t = "number" THEN value.v ELSE NumberOf(Trim(value.v))

\* The answer lies below the builder field's min, above its max, or off its
\* step.
OutOfRange(field, n) ==
    \/ field.min # None /\ n < Get(field.min)
    \/ field.max # None /\ n > Get(field.max)
    \/ field.step # None /\ n % Get(field.step) # 0

\* C21: a finite numeric answer (a number, or a numeric string) to a number
\* field is never refused for the field's min, max or step: it gives no
\* issue and is persisted as that number, whatever the three constraints
\* are.
C21_NumberRangeNotEnforced ==
    (ReachedValidation /\ request.answers[1].value \in FiniteAnswerValues)
    => LET n == NumericOf(request.answers[1].value)
       IN  /\ issues = <<>>
           /\ answersToPersist = << PersistedAnswer(form.fields[1].id, NumberValue(n)) >>
           /\ httpStatus = 201
           /\ dbResponses = << formResponseCreate(form.id, answersToPersist) >>

\* C21 witness: 42 was sent as a string for a required field whose range is
\* 10..20 in steps of 5, and was persisted.
C21_Witness ==
    /\ ReachedValidation
    /\ fields[1].required
    /\ fields[1].min = Some(10) /\ fields[1].max = Some(20) /\ fields[1].step = Some(5)
    /\ request.answers[1].value = StringValue(s42Padded)
    /\ OutOfRange(fields[1], 42)
    /\ httpStatus = 201
    /\ dbResponses[1].answers[1].value = NumberValue(42)

(***************************************************************************)
(* The responses route with one dropdown or checkbox field.                *)
(***************************************************************************)
oA == <<"a">>
oB == <<"b">>

\* The options column of a stored field: null, an emptied list, a list of
\* one option whose value is the empty string, or the two options a and b.
StoredOptions == { None, Some(<<>>), Some(<<sEmpty>>), Some(<<oA, oB>>) }

ChoiceSchemas ==
    { << [id |-> FieldIdPool[1], type |-> type, required |-> required, options |-> options] >> :
          type \in {"dropdown", "checkbox"}, required \in BOOLEAN, options \in StoredOptions }

ChoiceAnswerValues ==
    { StringValue(sEmpty), StringValue(oA), StringValue(oB), StringValue(sOther),
      ArrayValue(<<>>), ArrayValue(<<oA>>), ArrayValue(<<oA, oB>>),
      ArrayValue(<<oA, sOther>>), ArrayValue(<<sOther, sOther>>),
      NumberValue(5), BooleanValue(TRUE), NullValue }

ChoiceRequests ==
    { [session |-> "owner", formId |-> "F", honey |-> None,
       answers |-> << [fieldId |-> FieldIdPool[1], value |-> v] >>] :
          v \in ChoiceAnswerValues }

InitChoice ==
    /\ InitBuilderState
    /\ form \in { [id |-> "F", ownerId |-> "owner", fields |-> fs] : fs \in ChoiceSchemas }
    /\ request = NoRequest
    /\ issues = <<>>
    /\ answersToPersist = <<>>
    /\ httpStatus = 0
    /\ responseIssues = <<>>
    /\ dbResponses = <<>>

NextChoice == \E req \in ChoiceRequests : POST(req)

SpecChoice == InitChoice /\ [][NextChoice]_vars

\* The answers persisted for a field.
AnswersFor(fieldId) == SelectSeq(answersToPersist, LAMBDA answer : answer.fieldId = fieldId)

\* C22: for a checkbox field with declared options and a non-empty array
\* answer: when every entry is a declared option value the field has no
\* issue and the normalized answer is the submitted array; when an entry is
\* not declared the field has exactly one issue and no persisted answer.
C22_CheckboxOptionMembership ==
    ( /\ ReachedValidation
      /\ form.fields[1].type = "checkbox"
      /\ parseOptions(form.fields[1].options) # <<>>
      /\ request.answers[1].value.t = "array"
      /\ Len(request.answers[1].value.v) > 0 )
    => LET field == form.fields[1]
           values == request.answers[1].value.v
           declared == \A i \in 1..Len(values) : Includes(parseOptions(field.options), values[i])
       IN  /\ declared =>
                  /\ IssuesFor(field.id) = <<>>
                  /\ AnswersFor(field.id) = << PersistedAnswer(field.id, ArrayValue(values)) >>
           /\ ~declared =>
                  /\ Len(IssuesFor(field.id)) = 1
                  /\ AnswersFor(field.id) = <<>>

\* An answer that is not empty: a string of one character at least, an
\* array, a number or a boolean.
NonEmptyAnswer(value) ==
    \/ value.t = "string" /\ Len(value.v) > 0
    \/ value.t \in {"array", "number", "boolean"}

\* C23 as stated: for a dropdown field whose options column holds a list, a
\* non-empty answer is persisted only if it is one of the listed values, and
\* a non-empty answer outside the list gives "Selected option is invalid"
\* and is not persisted.
C23_DropdownDeclaredList ==
    ( /\ ReachedValidation
      /\ form.fields[1].type = "dropdown"
      /\ form.fields[1].options # None
      /\ NonEmptyAnswer(request.answers[1].value) )
    => LET field == form.fields[1]
           value == request.answers[1].value
           declared == value.t = "string" /\ Includes(Get(field.options), value.v)
       IN  /\ AnswersFor(field.id) # <<>> => declared
           /\ ~declared =>
                  /\ Issue(field.id, "Selected option is invalid") \in
                         { issues[k] : k \in 1..Len(issues) }
                  /\ AnswersFor(field.id) = <<>>

\* C23 amended: for a dropdown field whose options list has one option with
\* a non-empty value at least, a non-empty string answer is persisted (as
\* it was sent) exactly when it is one of the option values, and otherwise
\* gives "Selected option is invalid" and is not persisted.
C23_DropdownMembership ==
    ( /\ ReachedValidation
      /\ form.fields[1].type = "dropdown"
      /\ parseOptions(form.fields[1].options) # <<>>
      /\ request.answers[1].value.t = "string"
      /\ Len(request.answers[1].value.v) > 0 )
    => LET field == form.fields[1]
           value == request.answers[1].value
           declared == Includes(parseOptions(field.options), value.v)
       IN  /\ declared =>
                  /\ AnswersFor(field.id) = << PersistedAnswer(field.id, value) >>
                  /\ IssuesFor(field.id) = <<>>
           /\ ~declared =>
                  /\ Issue(field.id, "Selected option is invalid") \in
                         { issues[k] : k \in 1..Len(issues) }
                  /\ AnswersFor(field.id) = <<>>
                  /\ dbResponses = <<>>

\* C23 witness: "z" was sent for a non-required dropdown declaring a and b,
\* and was refused with the one issue "Selected option is invalid".
C23_Witness ==
    /\ ReachedValidation
    /\ form.fields[1].type = "dropdown"
    /\ ~form.fields[1].required
    /\ form.fields[1].options = Some(<<oA, oB>>)
    /\ request.answers[1].value = StringValue(sOther)
    /\ httpStatus = 422
    /\ issues = << Issue(form.fields[1].id, "Selected option is invalid") >>
    /\ dbResponses = <<>>

(***************************************************************************)
(* The responses route with an email field first in the form.              *)
(***************************************************************************)
sEmailPadded == <<" ", "a", "@", "b", ".", "c", "\t">>
sEmailSubdomain == <<"a", "@", "b", ".", "c", ".", "d">>
sNoAt == <<"a", "b", ".", "c">>
sNoDot == <<"a", "@", "b">>
sNoLocal == <<"@", "b", ".", "c">>
sNoDomain == <<"a", "@", ".", "c">>
sNoTld == <<"a", "@", "b", ".">>
sTwoAts == <<"a", "@", "@", "b", ".", "c">>
sInnerBlank == <<"a", " ", "b", "@", "c", ".", "d">>

\* Answers of the shape local@domain.tld once trimmed, and answers that are
\* not.
ShapedEmails == { sEmail, sEmailPadded, sEmailSubdomain }

UnshapedEmails == { sNoAt, sNoDot, sNoLocal, sNoDomain, sNoTld, sTwoAts, sInnerBlank }

BlankStrings == { sEmpty, sBlank, <<" ", "\t", "\n">> }

\* An email field, alone or followed by a field of any type.
EmailSchemas ==
    { <<SchemaField(1, "email", required)>> : required \in BOOLEAN }
    \cup
    { <<SchemaField(1, "email", required), SchemaField(2, tr[1], tr[2])>> :
          required \in BOOLEAN, tr \in SchemaTypes \X BOOLEAN }

EmailRequests ==
    { [session |-> "owner", formId |-> "F", honey |-> None,
       answers |-> << [fieldId |-> FieldIdPool[1], value |-> StringValue(v)] >>] :
          v \in ShapedEmails \cup UnshapedEmails \cup BlankStrings }

InitEmail ==
    /\ InitBuilderState
    /\ form \in { [id |-> "F", ownerId |-> "owner", fields |-> fs] : fs \in EmailSchemas }
    /\ request = NoRequest
    /\ issues = <<>>
    /\ answersToPersist = <<>>
    /\ httpStatus = 0
    /\ responseIssues = <<>>
    /\ dbResponses = <<>>

NextEmail == \E req \in EmailRequests : POST(req)

SpecEmail == InitEmail /\ [][NextEmail]_vars

\* C24: on an email field, an answer of the shape local@domain.tld once
\* trimmed is normalized to the trimmed string with no issue; any other
\* answer that is not empty once trimmed gives "Email format looks invalid"
\* and no answer; an empty or whitespace-only answer on a non-required field
\* gives no answer and no issue.
C24_EmailShape ==
    ReachedValidation
    => LET field == form.fields[1]
           v == request.answers[1].value.v
       IN  /\ v \in ShapedEmails =>
                  /\ AnswersFor(field.id) = << PersistedAnswer(field.id, StringValue(Trim(v))) >>
                  /\ IssuesFor(field.id) = <<>>
                  /\ Len(form.fields) = 1 =>
                         dbResponses = << formResponseCreate(form.id, answersToPersist) >>
           /\ v \in UnshapedEmails =>
                  /\ Issue(field.id, "Email format looks invalid") \in
                         { issues[k] : k \in 1..Len(issues) }
                  /\ AnswersFor(field.id) = <<>>
                  /\ dbResponses = <<>>
           /\ (v \in BlankStrings /\ ~field.required) =>
                  /\ AnswersFor(field.id) = <<>>
                  /\ IssuesFor(field.id) = <<>>

\* C24 witness: " a@b.c" with a tab behind it was sent for the only field of
\* the form and persisted as "a@b.c".
C24_Witness ==
    /\ ReachedValidation
    /\ Len(form.fields) = 1
    /\ request.answers[1].value = StringValue(sEmailPadded)
    /\ httpStatus = 201
    /\ dbResponses[1].answers = << PersistedAnswer(form.fields[1].id, StringValue(sEmail)) >>

(***************************************************************************)
(* The responses route with a form of two fields and a submission of up to *)
(* MaxAnswers + 1 answers, in any order, repeated or for a field outside   *)
(* the form.                                                               *)
(***************************************************************************)
MultiTypes == {"email", "number", "rating"}

MultiSchemas ==
    { <<SchemaField(1, tr[1][1], tr[1][2]), SchemaField(2, tr[2][1], tr[2][2])>> :
          tr \in [1..2 -> MultiTypes \X BOOLEAN] }

\* "" is empty for every type; "42" is a number and no email; "a@b.c" is an
\* email and no number.
MultiAnswers ==
    [fieldId : {FieldIdPool[1], FieldIdPool[2]},
     value : {StringValue(sEmpty), StringValue(s42), StringValue(sEmail)}]
    \cup { [fieldId |-> UnknownFieldId, value |-> StringValue(s42)] }

MultiRequests ==
    { [session |-> "owner", formId |-> "F", honey |-> None, answers |-> a] :
          a \in UNION { [1..n -> MultiAnswers] : n \in 1..(MaxAnswers + 1) } }

InitMulti ==
    /\ InitBuilderState
    /\ form \in { [id |-> "F", ownerId |-> "owner", fields |-> fs] : fs \in MultiSchemas }
    /\ request = NoRequest
    /\ issues = <<>>
    /\ answersToPersist = <<>>
    /\ httpStatus = 0
    /\ responseIssues = <<>>
    /\ dbResponses = <<>>

NextMulti == \E req \in MultiRequests : POST(req)

SpecMulti == InitMulti /\ [][NextMulti]_vars

\* The submission holds an answer for the field.
Answered(fieldId) == \E k \in 1..Len(request.answers) : request.answers[k].fieldId = fieldId

\* C25: a non-required field that has no answer in the submission gets no
\* issue and no persisted answer, and does not make the submission fail: a
\* refused submission has an issue for something else, and a submission with
\* no issue is stored.
C25_AbsentOptionalSkipped ==
    ReachedValidation
    => \A i \in 1..Len(form.fields) :
           (~form.fields[i].required /\ ~Answered(form.fields[i].id)) =>
               /\ IssuesFor(form.fields[i].id) = <<>>
               /\ AnswersFor(form.fields[i].id) = <<>>
               /\ httpStatus = 422 =>
                      \E k \in 1..Len(issues) : issues[k].fieldId # form.fields[i].id
               /\ issues = <<>> =>
                      /\ httpStatus = 201
                      /\ dbResponses = << formResponseCreate(form.id, answersToPersist) >>

\* C25 witness: the second field is not required and was left out, the first
\* was answered, and the submission was stored with that one answer.
C25_Witness ==
    /\ ReachedValidation
    /\ ~form.fields[2].required
    /\ ~Answered(form.fields[2].id)
    /\ Answered(form.fields[1].id)
    /\ httpStatus = 201
    /\ Len(dbResponses[1].answers) = 1
    /\ dbResponses[1].answers[1].fieldId = form.fields[1].id

\* The check of a field on the answers of SpecMulti, as section 4.2 of the
\* specification words it: a required field fails with no answer or an empty
\* one, an email field fails on "42", a number field on "a@b.c", and a field
\* of a type outside FieldType fails on any answer.
FailsCheck(field) ==
    LET found == FindAnswer(request.answers, field.id)
        v == Get(found).value.v
    IN  IF found = None THEN field.required
        ELSE IF field.type \notin FieldTypes THEN TRUE
        ELSE IF v = sEmpty THEN field.required
        ELSE \/ field.type = "email" /\ v = s42
             \/ field.type = "number" /\ v = sEmail

\* The positions of the answers whose fieldId is no field of the form.
UnreferencedAnswers ==
    { k \in 1..Len(request.answers) : ~fieldMapHas(form.fields, request.answers[k].fieldId) }

\* C26: validation is exhaustive. The issue list returned holds an issue for
\* every field whose answer fails its check and one "Field does not belong
\* to this form" for every unreferenced answer, however many other fields
\* failed; a submission with any such failure is refused with status 422.
C26_IssuesExhaustive ==
    ReachedValidation
    => /\ \A i \in 1..Len(form.fields) :
              FailsCheck(form.fields[i]) =>
                  /\ httpStatus = 422
                  /\ \E k \in 1..Len(responseIssues) :
                         responseIssues[k].path = <<form.fields[i].id>>
       /\ UnreferencedAnswers # {} => httpStatus = 422
       /\ Cardinality({ k \in 1..Len(responseIssues) :
                           responseIssues[k].message = "Field does not belong to this form" })
              = Cardinality(UnreferencedAnswers)

\* C26 witness: "42" for a non-required email field, "a@b.c" for a
\* non-required number field and an answer for a field outside the form were
\* sent together, and the three issues came back together.
C26_Witness ==
    /\ ReachedValidation
    /\ form.fields[1] = SchemaField(1, "email", FALSE)
    /\ form.fields[2] = SchemaField(2, "number", FALSE)
    /\ request.answers = << [fieldId |-> FieldIdPool[1], value |-> StringValue(s42)],
                            [fieldId |-> UnknownFieldId, value |-> StringValue(s42)],
                            [fieldId |-> FieldIdPool[2], value |-> StringValue(sEmail)] >>
    /\ httpStatus = 422
    /\ responseIssues =
           << [path |-> <<UnknownFieldId>>, message |-> "Field does not belong to this form"],
              [path |-> <<FieldIdPool[1]>>, message |-> "Email format looks invalid"],
              [path |-> <<FieldIdPool[2]>>, message |-> "Number could not be parsed"] >>

\* The position of a field in form.fields, 0 for an id that is not there.
SchemaPosition(fieldId) ==
    IF fieldMapHas(form.fields, fieldId)
    THEN CHOOSE i \in 1..Len(form.fields) : form.fields[i].id = fieldId
    ELSE 0

\* C27: an accepted submission's persisted answers hold an answer for every
\* required field, each for a field of the form, in the order of the form's
\* fields and one per field at most.
C27_AcceptedAnswersWellFormed ==
    (ReachedValidation /\ httpStatus = 201)
    => LET persisted == dbResponses[1].answers
       IN  /\ issues = <<>>
           /\ \A i \in 1..Len(form.fields) :
                  form.fields[i].required =>
                      \E k \in 1..Len(persisted) : persisted[k].fieldId = form.fields[i].id
           /\ \A k \in 1..Len(persisted) : SchemaPosition(persisted[k].fieldId) > 0
           /\ \A j, k \in 1..Len(persisted) :
                  j < k => SchemaPosition(persisted[j].fieldId) < SchemaPosition(persisted[k].fieldId)

\* C27 witness: the answers were sent second field first, the first field
\* answered twice, and were persisted first field first, one each.
C27_Witness ==
    /\ ReachedValidation
    /\ httpStatus = 201
    /\ form.fields[1].required /\ form.fields[2].required
    /\ Len(request.answers) = 3
    /\ request.answers[1].fieldId = form.fields[2].id
    /\ request.answers[2].fieldId = form.fields[1].id
    /\ request.answers[3].fieldId = form.fields[1].id
    /\ Len(dbResponses[1].answers) = 2
    /\ dbResponses[1].answers[1].fieldId = form.fields[1].id
    /\ dbResponses[1].answers[2].fieldId = form.fields[2].id

\* The answers with every answer dropped that repeats the fieldId of an
\* earlier one.
FirstAnswers(answers) ==
    LET kept == SelectSeq([k \in 1..Len(answers) |-> k],
                          LAMBDA k : \A j \in 1..(k - 1) :
                                         answers[j].fieldId # answers[k].fieldId)
    IN  [n \in 1..Len(kept) |-> answers[kept[n]]]

\* The same, dropping only repeated answers for fields of the form.
FirstAnswersOfFields(answers) ==
    LET kept == SelectSeq([k \in 1..Len(answers) |-> k],
                          LAMBDA k : \/ ~fieldMapHas(form.fields, answers[k].fieldId)
                                     \/ \A j \in 1..(k - 1) :
                                            answers[j].fieldId # answers[k].fieldId)
    IN  [n \in 1..Len(kept) |-> answers[kept[n]]]

\* C28 as stated: with several answers for one fieldId, the later ones count
\* for nothing: the issues and the normalized answers are those of the
\* submission without them.
C28_OnlyFirstAnswerCounts ==
    (ReachedValidation /\ FirstAnswers(request.answers) # request.answers)
    => /\ issues = ValidateAnswers(form.fields, FirstAnswers(request.answers)).issues
       /\ answersToPersist = ValidateAnswers(form.fields, FirstAnswers(request.answers)).persist

\* C28 amended: with several answers for one field of the form, the later
\* ones count for nothing: the issues and the normalized answers are those
\* of the submission without them, and the value persisted for the field, if
\* any, comes from the first.
C28_OnlyFirstAnswerOfFieldCounts ==
    (ReachedValidation /\ FirstAnswersOfFields(request.answers) # request.answers)
    => /\ issues = ValidateAnswers(form.fields, FirstAnswersOfFields(request.answers)).issues
       /\ answersToPersist =
              ValidateAnswers(form.fields, FirstAnswersOfFields(request.answers)).persist
       /\ \A i \in 1..Len(form.fields) :
              LET first == SelectSeq(request.answers,
                                     LAMBDA a : a.fieldId = form.fields[i].id)
              IN  /\ Len(AnswersFor(form.fields[i].id)) <= 1
                  /\ (first # <<>> /\ Head(first).value = StringValue(sEmpty)) =>
                         AnswersFor(form.fields[i].id) = <<>>

\* C28 witness: a non-required email field was answered "a@b.c" and then
\* "42"; the first was persisted and the second, which is no email, raised
\* no issue.
C28_Witness ==
    /\ ReachedValidation
    /\ form.fields[1] = SchemaField(1, "email", FALSE)
    /\ request.answers = << [fieldId |-> FieldIdPool[1], value |-> StringValue(sEmail)],
                            [fieldId |-> FieldIdPool[1], value |-> StringValue(s42)] >>
    /\ httpStatus = 201
    /\ dbResponses[1].answers = << PersistedAnswer(FieldIdPool[1], StringValue(sEmail)) >>

(***************************************************************************)
(* REORDER_FIELD as a frame condition.                                     *)
(***************************************************************************)
\* How many positions of the sequence hold the field.
Occurrences(fieldSeq, field) == Cardinality({ k \in 1..Len(fieldSeq) : fieldSeq[k] = field })

\* The two sequences hold the same fields, each as many times.
IsPermutation(before, after) ==
    /\ Len(after) = Len(before)
    /\ \A k \in 1..Len(before) :
           Occurrences(after, before[k]) = Occurrences(before, before[k])

\* C29: REORDER_FIELD never adds, drops or alters a field: in every state
\* and for every id and direction the new field sequence is a permutation of
\* the old one, and selectedFieldId, formMeta, mode and theme are unchanged.
C29_ReorderIsPermutation ==
    [][ lastAction'.type = "REORDER_FIELD"
        => /\ IsPermutation(fields, fields')
           /\ selectedFieldId' = selectedFieldId
           /\ formMeta' = formMeta
           /\ mode' = mode
           /\ theme' = theme ]_vars

\* C29 witness: with the first field selected, it was moved down: the three
\* fields are all there in a new order and the selection stayed.
C29_Witness ==
    /\ steps = 2
    /\ lastAction = [type |-> "REORDER_FIELD",
                     payload |-> [id |-> initialState.fields[1].id, direction |-> "down"]]
    /\ selectedFieldId = initialState.fields[1].id
    /\ fields = << initialState.fields[2], initialState.fields[1], initialState.fields[3] >>

(***************************************************************************)
(* Share links: creation requests of the owner and of others, overlapping  *)
(* at the handler's awaits.                                                *)
(***************************************************************************)
pwShort == <<"a", "b", "c">>
pwLong == <<"s", "e", "c", "r", "e", "t">>

InitShare ==
    /\ InitBuilderState
    /\ form = [id |-> "F", ownerId |-> "owner", fields |-> <<SchemaField(1, "short_text", TRUE)>>]
    /\ request = NoRequest
    /\ issues = <<>>
    /\ answersToPersist = <<>>
    /\ httpStatus = 0
    /\ responseIssues = <<>>
    /\ dbResponses = <<>>

NextShare ==
    \/ \E r \in ShareCallIds, session \in {"none", "owner", "other"}, formId \in {"F", "G"},
          password \in {None, Some(pwShort), Some(pwLong)} :
           ShareBegin(r, session, formId, [password |-> password])
    \/ \E r \in ShareCallIds : ShareFindExisting(r)
    \/ \E r \in ShareCallIds : ShareRespond(r)

SpecShare == InitShare /\ [][NextShare]_vars

\* The formShareToken rows of the form.
TokensOfForm == SelectSeq(shareTokens, LAMBDA row : row.formId = form.id)

\* C30: whatever the interleaving of the creation requests for the form, at
\* most one share token exists for it, and a request that found a token has
\* returned that one.
C30_AtMostOneShareToken ==
    /\ Len(TokensOfForm) <= 1
    /\ \A r \in ShareCallIds :
           (shareCalls[r].pc = "done" /\ shareCalls[r].existing # None) =>
               /\ shareCalls[r].status = 200
               /\ shareCalls[r].share = Some(shareLink(Get(shareCalls[r].existing)))

====
